---- MODULE Spec2Model ----
(***************************************************************************)
(* Model of the event aggregator: the venue result cache (CacheManager),   *)
(* the category fetch functions that drive it, and the merge-on-collision  *)
(* steps of the working sets of events.                                    *)
(***************************************************************************)
EXTENDS Integers, Sequences, FiniteSets, TLC

VARIABLES
    cache_dir,          \* CacheManager.cache_dir, as the category it names
    cache,              \* CacheManager.cache
    rebuild,            \* CacheManager.rebuild
    venues_to_rebuild,  \* CacheManager.venues_to_rebuild
    venues_to_skip,     \* CacheManager.venues_to_skip
    files,              \* the files cache/<category>/<venue>.json
    pc,                 \* "idle", or "fetching" while get_or_fetch awaits the fetcher
    cur,                \* the get_or_fetch call in flight
    hist,               \* the get_or_fetch calls that have returned, oldest first
    io,                 \* per cache file: read_to_string and write calls so far
    run,                \* the category fetch in progress and those that returned
    owner,              \* whose working set `events` is
    events,             \* MovieGroup.movies, EventVariants.events, or the
                        \* `events` set of miela::fetch or verdi::fetch
    panicked,           \* a merge step has panicked
    lastOp,             \* the last merge step: the set before it and what came in
    nops,               \* events merged in so far
    cpc,                \* where cinemas::fetch is: the source being fetched, "fold", "done"
    tc_groups,          \* movie_groups of triestecinema::fetch
    ts_groups,          \* movie_groups of the_space::fetch
    movie_groups,       \* movie_groups of cinemas::fetch, after the fold
    movies_out,         \* `movies`, the Vec<Event> cinemas::fetch returns
    cstep,              \* the last step of a cinema source: what came in, what was there
    by_base,            \* <<source, group title>> whose description a base variant supplied
    nitems,             \* links and listings the cinema sources have parsed
    attempt,            \* `attempt` of the_space::fetch
    api_calls,          \* what each call_api of the_space::fetch has come back with
    decoded,            \* a response has decoded and `listings` is set from it
    tpc,                \* where theaters::fetch is: "fetching", "failed", "done"
    th_results,         \* what the venues of theaters::fetch have returned so far
    th_variants,        \* the Vec<EventVariants> theaters::fetch returns
    range_a,            \* a DateRange
    range_b,            \* another DateRange
    answers,            \* what overlaps has answered for the two, each way round
    shared_days,        \* the days contains has found in both ranges
    verdi_in,           \* a date string of the Verdi calendar, split into entries and words
    verdi_out,          \* what parse_date has returned for it
    custom_value,       \* the `date` value of an entry of the custom events file
    custom_frame,       \* what custom::parse_date has returned for it
    custom_in,          \* the `events` array of the custom events file
    custom_window,      \* the DateRange custom::fetch is asked for
    custom_out,         \* what custom::fetch has returned
    id_base,            \* the base title of a movie
    id_tags,            \* its tags, in the two orders two HashSets iterate them in
    ids                 \* what make_id has returned for the one and for the other

cacheVars == <<cache_dir, cache, rebuild, venues_to_rebuild, venues_to_skip,
               files, pc, cur, hist, io, run>>

mergeVars == <<owner, events, panicked, lastOp, nops>>

apiVars == <<attempt, api_calls, decoded>>

cinemaVars == <<cpc, tc_groups, ts_groups, movie_groups, movies_out, cstep, by_base, nitems,
               apiVars>>

theaterVars == <<tpc, th_results, th_variants>>

datesVars == <<range_a, range_b, answers, shared_days>>

verdiVars == <<verdi_in, verdi_out>>

customVars == <<custom_value, custom_frame, custom_in, custom_window, custom_out>>

idVars == <<id_base, id_tags, ids>>

parseVars == <<verdiVars, customVars, idVars>>

restVars == <<cinemaVars, theaterVars, datesVars, parseVars>>

vars == <<cacheVars, mergeVars, restVars>>

(***************************************************************************)
(* Bounds                                                                  *)
(***************************************************************************)
\* get_or_fetch calls made by a caller that is not a category fetch
MaxCalls == 2

\* events merged into one working set
MaxMerges == 2

\* links and session attributes the two cinema sources parse in one run
MaxItems == 2

\* the days a DateRange starts and ends on
MaxDay == 3

\* the comma-separated parts of a date string
MaxParts == 3

\* the strings of a `date` array of the custom events file
MaxArray == 2

\* the entries of the custom events file
MaxEntries == 2

\* the attempts the_space::fetch makes at its API
Attempts == 3

(***************************************************************************)
(* Values                                                                  *)
(***************************************************************************)
\* Payloads a fetcher returns (a venue's list of events or groups).
Payloads == {1, 2}

\* Result<Option<V>> of get_or_fetch, Result<V> of a fetcher.
OkNone == [tag |-> "OkNone", val |-> 0, err |-> ""]
OkSome(v) == [tag |-> "OkSome", val |-> v, err |-> ""]
Err(e) == [tag |-> "Err", val |-> 0, err |-> e]

\* What a fetcher can answer: a payload, or an error.
FetchOutcomes == {OkSome(p) : p \in Payloads} \cup {Err("fetch")}

\* Content of a cache file: no file, a file that read_to_string or from_str
\* rejects, or the JSON text of a payload. The file-system calls themselves
\* succeed: fs::write and create_dir_all do not fail.
Absent == [tag |-> "absent", val |-> 0]
Corrupt == [tag |-> "corrupt", val |-> 0]
Json(v) == [tag |-> "json", val |-> v]

\* to_string writing text that from_str does not read back
to_string_debug(v) == Corrupt

\* serde_json::to_string(&result)
to_string(v) == Json(v)

\* serde_json::from_str(&content)
FromStr(content) ==
    IF content.tag = "json" THEN OkSome(content.val) ELSE Err("serde")

\* fs::exists(&cache_path)
Exists(fs, key) == fs[key] # Absent

\* The categories and venues of the category fetch functions.
CinemaVenues == <<"triestecinema", "the_space">>
TheaterVenuesTwice == <<"hangarteatri", "miela", "miela", "verdi">>
TheaterVenues == <<"hangarteatri", "miela", "rossetti", "verdi">>
LibraryVenues == <<"lovat">>

\* "bookstores" stands for CATEGORY_BOOKSTORES.to_lowercase(), a constant whose
\* text is set outside these files.
RunCategories == {"cinema", "theater", "bookstores"}

VenuesOf(category) ==
    CASE category = "cinema" -> CinemaVenues
      [] category = "theater" -> TheaterVenues
      [] category = "bookstores" -> LibraryVenues

Range(s) == {s[i] : i \in DOMAIN s}

\* The cache files the category fetch functions name.
RunKeys == UNION {{<<c, v>> : v \in Range(VenuesOf(c))} : c \in RunCategories}

\* Every cache path a CacheManager of the category fetch functions can form.
RunVenues == {k[2] : k \in RunKeys}
RunPaths == RunCategories \X RunVenues

\* Categories and venues of a caller that is not a category fetch.
Categories == {"cinema", "theater"}
Venues == {"triestecinema", "miela"}
Paths == Categories \X Venues

\* The file systems with at most one file among `keys`, over the paths `paths`.
FileSystems(paths, keys, contents) ==
    {[p \in paths |-> Absent]} \cup
    {[p \in paths |-> IF p = k THEN c ELSE Absent] : k \in keys, c \in contents}

(***************************************************************************)
(* Events and time frames                                                  *)
(***************************************************************************)
\* Option<TimeFrame>: None, Some(Dates(DateSet)), Some(Period(DateRange)).
\* A DateSet is the list of its dates, days being numbered.
NoneTF == [kind |-> "None", dates |-> <<>>, start |-> 0, end |-> 0]
Dates(dates) == [kind |-> "Dates", dates |-> dates, start |-> 0, end |-> 0]
Period(start, end) == [kind |-> "Period", dates |-> <<>>, start |-> start, end |-> end]

\* What a merge that panics leaves in place of a time frame.
PanicTF == [kind |-> "Panic", dates |-> <<>>, start |-> 0, end |-> 0]

\* The dates of `S`, each once, in ascending order.
SortedSeq(S) ==
    CHOOSE s \in [1..Cardinality(S) -> S] :
        /\ Range(s) = S
        /\ \A i, j \in DOMAIN s : i < j => s[i] < s[j]

Min(a, b) == IF a <= b THEN a ELSE b
Max(a, b) == IF a >= b THEN a ELSE b

\* TimeFrame::merge: Dates with Dates is the union without duplicates, Period
\* with Period the widening to the least start and greatest end; a Dates frame
\* with a Period frame panics.
TimeFrameMerge(a, b) ==
    CASE a.kind = "Dates" /\ b.kind = "Dates" ->
            Dates(SortedSeq(Range(a.dates) \cup Range(b.dates)))
      [] a.kind = "Period" /\ b.kind = "Period" ->
            Period(Min(a.start, b.start), Max(a.end, b.end))
      [] OTHER -> PanicTF

\* Event, with the fields the merge steps read or write.
Event(id, title, locations, time_frame, tags) ==
    [id |-> id, title |-> title, locations |-> locations,
     time_frame |-> time_frame, tags |-> tags]

\* impl PartialEq for Event, impl Hash for Event: by id alone.
SameEvent(a, b) == a.id = b.id

\* HashSet<Event>::contains, ::get, ::take, ::insert
Contains(set, e) == \E x \in set : SameEvent(x, e)
Get(set, e) == CHOOSE x \in set : SameEvent(x, e)
Take(set, e) == {x \in set : ~SameEvent(x, e)}
Insert(set, e) == IF Contains(set, e) THEN set ELSE set \cup {e}

\* The events the cinema sources and the callers of add_events hand in: two
\* ids, a stored and an incoming spelling of title and tags, two venues, and
\* no time frame, a Dates frame or a Period frame.
EventPool ==
    {Event(v[1], v[2], {l}, tf, v[3]) :
        v \in {<<"a", "A", {}>>, <<"a", "A 3d", {"3D"}>>, <<"b", "B", {}>>},
        l \in {"Ariston", "Nazionale"},
        tf \in {NoneTF, Dates(<<1>>), Dates(<<2>>), Period(1, 2)}}

\* The events miela::fetch builds: Event::new(title, {"Miela"}, ..) with the
\* Dates frame of one calendar day.
MielaPool ==
    {Event(t, t, {"Miela"}, Dates(<<d>>), {}) : t \in {"a", "b"}, d \in {1, 2, 3}}

\* The events verdi::fetch builds: Event::new(title, {"Verdi"}, ..) with the
\* Dates frame parse_date returns, of one date or several.
VerdiPool ==
    {Event(t, t, {"Verdi"}, Dates(ds), {}) :
        t \in {"a", "b"}, ds \in {<<1>>, <<2>>, <<3>>, <<1, 2>>, <<2, 3>>}}

\* The result of a merge step: the working set it leaves, and whether it panicked.
Done(set) == [events |-> set, panicked |-> FALSE]
Panic(set) == [events |-> set, panicked |-> TRUE]

\* the stored event replaced by the incoming one (HashSet::replace)
add_movie_replace(movies, movie) == Done(Take(movies, movie) \cup {movie})

\* the stored frame kept when the two frames cannot be merged
add_movie_lenient(movies, movie) ==
    IF Contains(movies, movie)
    THEN LET taken == Get(movies, movie)
             rest == Take(movies, movie)
             ext_movie == [taken EXCEPT !.locations = @ \cup movie.locations]
             new_tf == TimeFrameMerge(ext_movie.time_frame, movie.time_frame)
         IN  IF new_tf = PanicTF
             THEN Done(rest \cup {ext_movie})
             ELSE Done(rest \cup {[ext_movie EXCEPT !.time_frame = new_tf]})
    ELSE Done(movies \cup {movie})

\* the dates of the incoming frame appended to those of the stored frame
add_movie_concat(movies, movie) ==
    IF Contains(movies, movie)
    THEN LET taken == Get(movies, movie)
             ext_movie == [taken EXCEPT !.locations = @ \cup movie.locations]
         IN  IF ext_movie.time_frame.kind = "Dates" /\ movie.time_frame.kind = "Dates"
             THEN Done(Take(movies, movie) \cup
                       {[ext_movie EXCEPT !.time_frame =
                            Dates(ext_movie.time_frame.dates \o movie.time_frame.dates)]})
             ELSE Done(Take(movies, movie) \cup {ext_movie})
    ELSE Done(movies \cup {movie})

\* the stored frame overwritten by the incoming one
add_movie_overwrite(movies, movie) ==
    IF Contains(movies, movie)
    THEN LET taken == Get(movies, movie)
         IN  Done(Take(movies, movie) \cup
                  {[taken EXCEPT !.locations = @ \cup movie.locations,
                                 !.time_frame = movie.time_frame]})
    ELSE Done(movies \cup {movie})

\* add_movie taking the frame of the incoming event when the stored one has none
add_movie_adopt(movies, movie) ==
    IF Contains(movies, movie)
    THEN LET taken == Get(movies, movie)
             rest == Take(movies, movie)
             ext_movie == [taken EXCEPT !.locations = @ \cup movie.locations]
         IN  IF movie.time_frame # NoneTF /\ ext_movie.time_frame # NoneTF
             THEN LET new_tf == TimeFrameMerge(ext_movie.time_frame, movie.time_frame)
                  IN  IF new_tf = PanicTF
                      THEN Panic(rest)
                      ELSE Done(rest \cup {[ext_movie EXCEPT !.time_frame = new_tf]})
             ELSE IF ext_movie.time_frame = NoneTF
             THEN Done(rest \cup {[ext_movie EXCEPT !.time_frame = movie.time_frame]})
             ELSE Done(rest \cup {ext_movie})
    ELSE Done(movies \cup {movie})

\* MovieGroup::add_movie
add_movie(movies, movie) ==
    IF Contains(movies, movie)
    THEN LET taken == Get(movies, movie)
             rest == Take(movies, movie)
             ext_movie == [taken EXCEPT !.locations = @ \cup movie.locations]
         IN  IF movie.time_frame # NoneTF /\ ext_movie.time_frame # NoneTF
             THEN LET new_tf == TimeFrameMerge(ext_movie.time_frame, movie.time_frame)
                  IN  IF new_tf = PanicTF
                      THEN Panic(rest)
                      ELSE Done(rest \cup {[ext_movie EXCEPT !.time_frame = new_tf]})
             ELSE Done(rest \cup {ext_movie})
    ELSE Done(movies \cup {movie})

\* self.events.iter().position(|ev| *ev == event)
Position(list, event) ==
    IF \E i \in DOMAIN list : SameEvent(list[i], event)
    THEN CHOOSE i \in DOMAIN list :
            /\ SameEvent(list[i], event)
            /\ \A j \in DOMAIN list : SameEvent(list[j], event) => i <= j
    ELSE 0

\* The body of the loop of EventVariants::add_events.
add_event(list, event) ==
    LET index == Position(list, event)
    IN  IF index # 0
        THEN [list EXCEPT ![index].locations = @ \cup event.locations]
        ELSE Append(list, event)

\* EventVariants::add_events
RECURSIVE add_events(_, _)
add_events(list, batch) ==
    IF batch = <<>> THEN list
    ELSE add_events(add_event(list, Head(batch)), Tail(batch))

\* miela::fetch, "Merge time frames if needed"
miela_merge(set, event) ==
    IF Contains(set, event)
    THEN LET ext_event == Get(set, event)
             rest == Take(set, event)
         IN  IF ext_event.time_frame = NoneTF \/ event.time_frame = NoneTF
             THEN Panic(rest)
             ELSE LET new_tf == TimeFrameMerge(ext_event.time_frame, event.time_frame)
                  IN  IF new_tf = PanicTF
                      THEN Panic(rest)
                      ELSE Done(rest \cup {[ext_event EXCEPT !.time_frame = new_tf]})
    ELSE Done(Insert(set, event))

\* verdi::fetch, events.insert(event)
verdi_insert(set, event) == Done(Insert(set, event))

(***************************************************************************)
(* Cinema titles, ids and groups                                           *)
(***************************************************************************)
\* Strings are the lists of their characters. The characters of the titles,
\* in the order of their bytes, which is the order String::cmp compares by.
Alphabet == <<" ", ":", "X", "Y", "x", "y">>

Ord(c) == CHOOSE i \in DOMAIN Alphabet : Alphabet[i] = c

\* a.cmp(&b) == Ordering::Less, for strings
StrLess(a, b) ==
    \E k \in 0..Min(Len(a), Len(b)) :
        /\ \A i \in 1..k : a[i] = b[i]
        /\ \/ k = Len(a) /\ k < Len(b)
           \/ k < Len(a) /\ k < Len(b) /\ Ord(a[k + 1]) < Ord(b[k + 1])

\* str::trim
RECURSIVE Trim(_)
Trim(s) ==
    IF s = <<>> THEN s
    ELSE IF Head(s) = " " THEN Trim(Tail(s))
    ELSE IF s[Len(s)] = " " THEN Trim(SubSeq(s, 1, Len(s) - 1))
    ELSE s

\* to_case(Case::Title): the first letter of every word in upper case. No
\* title here has a particle, an apostrophe or a quote for standardize_case to
\* rewrite after that.
Upper(c) == CASE c = "x" -> "X" [] c = "y" -> "Y" [] OTHER -> c
TitleCase(s) ==
    [i \in DOMAIN s |-> IF i = 1 \/ s[i - 1] = " " THEN Upper(s[i]) ELSE s[i]]

\* SUBTITLE_STRIPPER.replace_all(text, ""): the text up to the first colon that
\* white space follows.
SubtitleStripped(s) ==
    LET at == {i \in 1..(Len(s) - 1) : s[i] = ":" /\ s[i + 1] = " "}
    IN  IF at = {} THEN s
        ELSE SubSeq(s, 1, (CHOOSE i \in at : \A j \in at : i <= j) - 1)

\* The titles the two sites list, lower case; "in 3d" stands for those words.
RawTitles ==
    {<<"x">>, <<"x", " ", "in 3d">>, <<"x", ":", " ", "y">>, <<"x", " ", "y">>, <<"y">>}

\* clean_title: (title, base_title, tags) of a listed title. The listed titles
\* are in lower case already, without "4K", accents written as apostrophes,
\* hyphens, runs of spaces or a language note, so that of the rewriting steps
\* the extraction of "in 3d", the subtitle stripper and the trims act on them.
clean_title(raw) ==
    LET new_title == SelectSeq(raw, LAMBDA c : c # "in 3d")
    IN  [title |-> Trim(new_title),
         base_title |-> Trim(SubtitleStripped(new_title)),
         tags |-> IF "in 3d" \in Range(raw) THEN {"3D"} ELSE {}]

\* tags_vec.sort(), then each tag after a space, in lower case.
TagOrder == <<"3D", "Originale Sottotitolato">>
TagId(tag) ==
    CASE tag = "3D" -> <<" ", "3d">>
      [] tag = "Originale Sottotitolato" -> <<" ", "originale", " ", "sottotitolato">>

RECURSIVE TagIds(_, _)
TagIds(tags, i) ==
    IF i > Len(TagOrder) THEN <<>>
    ELSE (IF TagOrder[i] \in tags THEN TagId(TagOrder[i]) ELSE <<>>) \o TagIds(tags, i + 1)

\* tags_vec.sort(): the tags in byte order, whatever order they came in.
TagRank(tag) == CHOOSE i \in DOMAIN TagOrder : TagOrder[i] = tag
RECURSIVE sort_tags(_)
sort_tags(tags_vec) ==
    IF tags_vec = <<>> THEN <<>>
    ELSE LET tag == Head(tags_vec)
             rest == sort_tags(Tail(tags_vec))
         IN  SelectSeq(rest, LAMBDA t : TagRank(t) < TagRank(tag)) \o <<tag>> \o
             SelectSeq(rest, LAMBDA t : TagRank(t) >= TagRank(tag))

\* the fold of make_id: each tag after a space, in the order of the vector
RECURSIVE tag_id(_)
tag_id(tags_vec) ==
    IF tags_vec = <<>> THEN <<>> ELSE TagId(Head(tags_vec)) \o tag_id(Tail(tags_vec))

\* make_id_iterated without the sort
make_id_unsorted(base_title, tags_vec) ==
    LET id == base_title \o tag_id(tags_vec)
        nuked == Trim(SelectSeq(id, LAMBDA c : c # ":"))
    IN  [i \in DOMAIN nuked |-> IF nuked[i] = " " THEN "_" ELSE nuked[i]]

\* make_id, given the order in which tags.iter() yields the tags.
make_id_iterated(base_title, tags_vec) ==
    LET id == base_title \o tag_id(sort_tags(tags_vec))
        nuked == Trim(SelectSeq(id, LAMBDA c : c # ":"))
    IN  [i \in DOMAIN nuked |-> IF nuked[i] = " " THEN "_" ELSE nuked[i]]

\* the id without the tags
make_id_untagged(base_title, tags) ==
    [i \in DOMAIN base_title |-> IF base_title[i] = " " THEN "_" ELSE base_title[i]]

\* make_id: base title and sorted tags, PUNCTUATION_NUKE, trim, "_" for " ".
make_id(base_title, tags) ==
    LET id == base_title \o TagIds(tags, 1)
        nuked == Trim(SelectSeq(id, LAMBDA c : c # ":"))
    IN  [i \in DOMAIN nuked |-> IF nuked[i] = " " THEN "_" ELSE nuked[i]]

\* Option<String>: None, or the text of a description.
Descriptions == {"D1", "D2"}

\* MovieGroup
MovieGroup(title, description, variants) ==
    [title |-> title, description |-> description, movies |-> variants]

\* HashMap<String, MovieGroup>: contains_key, get, and the map without a key.
HasGroup(groups, title) == \E g \in groups : g.title = title
GroupAt(groups, title) == CHOOSE g \in groups : g.title = title
Without(groups, title) == {g \in groups : g.title # title}

\* What a step on a map of groups leaves, and whether add_movie panicked in it.
Stepped(groups, failed) == [groups |-> groups, panicked |-> failed]

\* triestecinema::fetch, and_modify: the condition under which the
\* description found for a link becomes the description of its group.
tc_replaces(group, description, tags) ==
    description # "None" /\ (group.description = "None" \/ tags = {})

\* triestecinema::fetch, the body of the loop over the links of a day; `page`
\* is the description get_description finds on the page of the link.
tc_link(groups, raw, cinema, curr_date, page) ==
    LET ct == clean_title(raw)
        id == make_id(ct.base_title, ct.tags)
        description ==
            IF HasGroup(groups, ct.base_title) /\
               \E m \in GroupAt(groups, ct.base_title).movies : m.id = id
            THEN "None"
            ELSE page
        movie == Event(id, TitleCase(ct.title), {cinema}, Dates(<<curr_date>>), ct.tags)
    IN  IF HasGroup(groups, ct.base_title)
        THEN LET group == GroupAt(groups, ct.base_title)
                 added == add_movie(group.movies, movie)
             IN  Stepped(Without(groups, ct.base_title) \cup
                            {MovieGroup(group.title,
                                        IF tc_replaces(group, description, ct.tags)
                                        THEN description
                                        ELSE group.description,
                                        added.events)},
                         added.panicked)
        ELSE Stepped(groups \cup {MovieGroup(ct.base_title, description, {movie})}, FALSE)

\* the_space::fetch, the session attributes that make an event, and their tags
SessionAttributes == {"2D", "3D", "LINGUA ORIGINALE"}
AttrTags(attr) ==
    CASE attr = "2D" -> {}
      [] attr = "3D" -> {"3D"}
      [] attr = "LINGUA ORIGINALE" -> {"Originale Sottotitolato"}

\* the_space::fetch, the body of the loop over the attributes of a listing.
\* super::add_or_merge_to_group(group, &movie) is group.add_movie(movie).
ts_attr(groups, raw, description, attr) ==
    LET ct == clean_title(raw)
    IN  IF attr \notin SessionAttributes
        THEN Stepped(groups, FALSE)
        ELSE LET tags == AttrTags(attr)
                 movie == Event(make_id(ct.base_title, tags), TitleCase(ct.title),
                                {"The Space"}, NoneTF, tags)
             IN  IF HasGroup(groups, ct.base_title)
                 THEN LET group == GroupAt(groups, ct.base_title)
                          added == add_movie(group.movies, movie)
                      IN  Stepped(Without(groups, ct.base_title) \cup
                                     {MovieGroup(group.title, description, added.events)},
                                  added.panicked)
                 ELSE Stepped(groups \cup {MovieGroup(ct.base_title, description, {movie})},
                              FALSE)

\* for movie in group.movies.clone() { ext_group.add_movie(movie); }
RECURSIVE add_movies(_, _)
add_movies(stored, incoming) ==
    IF incoming = {} THEN Done(stored)
    ELSE LET movie == CHOOSE m \in incoming : TRUE
             added == add_movie(stored, movie)
         IN  IF added.panicked THEN added
             ELSE add_movies(added.events, incoming \ {movie})

\* cinemas::fetch, "Last existing description wins"
fold_description(ext_group, group) ==
    IF group.description # "None" THEN group.description ELSE ext_group.description

\* the fold with or_insert alone: a group whose title is held is left out
fold_group_first_only(groups, group) ==
    IF HasGroup(groups, group.title)
    THEN Stepped(groups, FALSE)
    ELSE Stepped(groups \cup {group}, FALSE)

\* cinemas::fetch, the body of the loop that folds the groups of a source into
\* movie_groups: entry(title).and_modify(..).or_insert(group).
fold_group(groups, group) ==
    IF HasGroup(groups, group.title)
    THEN LET ext_group == GroupAt(groups, group.title)
             added == add_movies(ext_group.movies, group.movies)
         IN  Stepped(Without(groups, group.title) \cup
                        {MovieGroup(ext_group.title, fold_description(ext_group, group),
                                    added.events)},
                     added.panicked)
    ELSE Stepped(groups \cup {group}, FALSE)

\* for group in groups { .. }, over the groups one source returned
RECURSIVE fold_source(_, _)
fold_source(groups, source) ==
    IF source = {} THEN Stepped(groups, FALSE)
    ELSE LET group == CHOOSE g \in source : TRUE
             folded == fold_group(groups, group)
         IN  IF folded.panicked THEN folded
             ELSE fold_source(folded.groups, source \ {group})

\* for groups in [triestecinema, the_space] { .. }
fold_sources(triestecinema, the_space) ==
    LET first == fold_source({}, triestecinema)
    IN  IF first.panicked THEN first ELSE fold_source(first.groups, the_space)

\* An event as cinemas::fetch returns it, with its description.
Described(e, description) ==
    [id |-> e.id, title |-> e.title, locations |-> e.locations,
     time_frame |-> e.time_frame, tags |-> e.tags, description |-> description]

\* the first variant inherits the group description
Inheritor_first(variants) == 1

\* variants.last_mut(): the variant that inherits the group description
Inheritor(variants) == Len(variants)

\* group.movies.into_iter().collect(), sort_by tags.len(): the orders the
\* stable sort can leave the variants in, the set being iterated in any order;
\* then the inheritor is given the description of the group.
Variants(group) ==
    {[i \in DOMAIN s |->
         Described(s[i], IF i = Inheritor(s) THEN group.description ELSE "None")] :
     s \in {s \in [1..Cardinality(group.movies) -> group.movies] :
               /\ Range(s) = group.movies
               /\ \A i, j \in DOMAIN s :
                    i < j => Cardinality(s[i].tags) <= Cardinality(s[j].tags)}}

\* movies_by_group.sort_by(|a, b| a[0].title.cmp(&b[0].title)): the key
GroupKey(variants) == variants[1].title

\* movies_by_group after its sort: one list of variants for every group, in
\* an order the stable sort can leave them in.
MoviesByGroup(groups) ==
    {s \in [1..Cardinality(groups) -> UNION {Variants(g) : g \in groups}] :
        /\ \A g \in groups : \E i \in DOMAIN s : s[i] \in Variants(g)
        /\ \A i, j \in DOMAIN s : i < j => ~StrLess(GroupKey(s[j]), GroupKey(s[i]))}

\* movies_by_group.into_iter().flatten().collect()
RECURSIVE Flatten(_)
Flatten(lists) ==
    IF lists = <<>> THEN <<>> ELSE Head(lists) \o Flatten(Tail(lists))

NoOp == [op |-> "none", before |-> {}, batch |-> <<>>]

\* No working set is being built.
NoMerging ==
    /\ owner = "none"
    /\ events = {}
    /\ panicked = FALSE
    /\ lastOp = NoOp
    /\ nops = 0

NoStep ==
    [source |-> "none", title |-> <<>>, tags |-> {}, incoming |-> "None",
     before |-> "Absent", was_base |-> FALSE]

\* cinemas::fetch is not running.
NoCinemaRun ==
    /\ cpc = "none"
    /\ tc_groups = {}
    /\ ts_groups = {}
    /\ movie_groups = {}
    /\ movies_out = <<>>
    /\ cstep = NoStep
    /\ by_base = {}
    /\ nitems = 0
    /\ attempt = 1
    /\ api_calls = <<>>
    /\ decoded = FALSE

\* theaters::fetch is not running.
NoTheaterRun ==
    /\ tpc = "none"
    /\ th_results = <<>>
    /\ th_variants = <<>>

\* overlaps has not been asked; an answer is "true" or "false".
NoAnswers == [ab |-> "unasked", ba |-> "unasked"]
Answer(bool) == IF bool THEN "true" ELSE "false"
\* contains has not been asked about any day
NoDays == [asked |-> FALSE, days |-> {}]

\* No range is being compared.
NoDates ==
    /\ range_a = [start_date |-> 1, end_date |-> 1]
    /\ range_b = [start_date |-> 1, end_date |-> 1]
    /\ answers = NoAnswers
    /\ shared_days = NoDays

\* parse_date has not been called.
Unparsed == [tag |-> "unparsed", dates |-> <<>>]

\* No date string is being parsed.
NoVerdi ==
    /\ verdi_in = <<>>
    /\ verdi_out = Unparsed

\* The `date` key is missing.
NoValue == [kind |-> "absent", items |-> <<>>]
\* custom::parse_date has not been called.
NoFrame == [kind |-> "unparsed", dates |-> <<>>, start |-> 0, end |-> 0]
\* custom::fetch has not returned.
NotFetched == [returned |-> FALSE, events |-> <<>>]

\* No custom events file is being read.
NoCustom ==
    /\ custom_value = NoValue
    /\ custom_frame = NoFrame
    /\ custom_in = <<>>
    /\ custom_window = [start_date |-> 1, end_date |-> 1]
    /\ custom_out = NotFetched

\* make_id has not returned.
NoId == [made |-> FALSE, id |-> <<>>]

\* No id is being made.
NoIds ==
    /\ id_base = <<>>
    /\ id_tags = [a |-> <<>>, b |-> <<>>]
    /\ ids = [a |-> NoId, b |-> NoId]

NoParsing == NoVerdi /\ NoCustom /\ NoIds

\* Neither a category fetch of its own nor a comparison of ranges nor a parse
\* is running.
NoAggregation == NoCinemaRun /\ NoTheaterRun /\ NoDates /\ NoParsing

(***************************************************************************)
(* CacheManager::get_or_fetch                                              *)
(***************************************************************************)
\* the skip list giving way to the forced-rebuild list
SkippedUnlessRebuilt(venue) ==
    venue \in venues_to_skip /\ venue \notin venues_to_rebuild

\* self.venues_to_skip.contains(venue_name)
Skipped(venue) == venue \in venues_to_skip

\* the forced-rebuild test with its negation lost
MayLoadForced(venue) == cache /\ ~rebuild /\ venue \in venues_to_rebuild

\* self.cache && !self.rebuild && !self.venues_to_rebuild.contains(venue_name)
MayLoad(venue) == cache /\ ~rebuild /\ venue \notin venues_to_rebuild

\* the path formed without the category
CachePathFlat(venue) == <<"cinema", venue>>

\* self.cache_dir.join("{venue_name}.json")
CachePath(venue) == <<cache_dir, venue>>

\* the write made whether or not caching is enabled
WritesAlways(outcome) == outcome.tag # "Err"

\* the write made before the fetcher's error is looked at
WritesBeforeCheck(outcome) == cache

\* Whether get_or_fetch gets to fs::write: the fetcher's error has returned
\* through `?` before it, and the write is under `if self.cache`.
WritesCache(outcome) == outcome.tag # "Err" /\ cache

\* let result = fetcher().await?; if self.cache { create_dir_all; to_string; fs::write }
AfterFetch(fs, path, outcome) ==
    IF WritesCache(outcome) THEN [fs EXCEPT ![path] = to_string(outcome.val)] ELSE fs

\* The record of one get_or_fetch call: its arguments, the cache path it formed,
\* the files before and after it, how often it called fs::exists, read_to_string,
\* the fetcher and fs::write, what the fetcher answered and what it returned.
NoCall ==
    [category |-> "", venue |-> "", path |-> <<"", "">>, pre |-> <<>>, post |-> <<>>,
     probes |-> 0, reads |-> 0, fetched |-> 0, writes |-> 0,
     outcome |-> OkNone, result |-> OkNone]

NewCall(venue) ==
    [NoCall EXCEPT !.category = cache_dir, !.venue = venue,
                   !.path = CachePath(venue), !.pre = files]

NoRun == [cat |-> "none", idx |-> 0, done |-> {}]

\* What the category fetch in progress does with the result of get_or_fetch:
\* `?` returns the error, otherwise it goes on to its next venue or returns.
RunAfter(result) ==
    IF run.cat = "none" THEN run
    ELSE IF result.tag = "Err" \/ run.idx = Len(VenuesOf(run.cat))
         THEN [cat |-> "none", idx |-> 0, done |-> run.done \cup {run.cat}]
         ELSE [run EXCEPT !.idx = run.idx + 1]

\* get_or_fetch returns `rec.result`.
Return(rec) ==
    /\ pc' = "idle"
    /\ cur' = NoCall
    /\ hist' = Append(hist, [rec EXCEPT !.post = files'])
    /\ run' = RunAfter(rec.result)

\* get_or_fetch from its entry to its return or to the await of the fetcher.
GetOrFetchCall(venue) ==
    /\ pc = "idle"
    /\ UNCHANGED <<mergeVars, restVars>>
    /\ UNCHANGED <<cache_dir, cache, rebuild, venues_to_rebuild, venues_to_skip>>
    /\ LET path == CachePath(venue)
           call == NewCall(venue)
       IN  IF Skipped(venue)
           THEN /\ UNCHANGED <<files, io>>
                /\ Return([call EXCEPT !.result = OkNone])
           ELSE IF MayLoad(venue) /\ Exists(files, path)
           THEN /\ UNCHANGED files
                /\ io' = [io EXCEPT ![path].reads = @ + 1]
                /\ Return([call EXCEPT !.probes = 1, !.reads = 1,
                                       !.result = FromStr(files[path])])
           ELSE /\ pc' = "fetching"
                /\ cur' = [call EXCEPT !.probes = IF MayLoad(venue) THEN 1 ELSE 0,
                                       !.fetched = 1]
                /\ UNCHANGED <<files, io, hist, run>>

\* The fetcher answers `outcome`; get_or_fetch runs on from the await to its return.
FetchReturns(outcome) ==
    /\ pc = "fetching"
    /\ UNCHANGED <<mergeVars, restVars>>
    /\ UNCHANGED <<cache_dir, cache, rebuild, venues_to_rebuild, venues_to_skip>>
    /\ files' = AfterFetch(files, cur.path, outcome)
    /\ LET written == IF WritesCache(outcome) THEN 1 ELSE 0
       IN  /\ io' = [io EXCEPT ![cur.path].writes = @ + written]
           /\ Return([cur EXCEPT !.writes = written, !.outcome = outcome,
                                 !.result = outcome])

\* CacheManager::set_category
SetCategory(category) ==
    /\ pc = "idle"
    /\ run.cat = "none"
    /\ cache_dir' = category
    /\ UNCHANGED <<mergeVars, restVars>>
    /\ UNCHANGED <<cache, rebuild, venues_to_rebuild, venues_to_skip,
                   files, pc, cur, hist, io, run>>

\* A caller calls get_or_fetch for any venue.
Call(venue) ==
    /\ Len(hist) < MaxCalls
    /\ GetOrFetchCall(venue)

\* CacheManager::new, over a cache directory that holds at most one file,
\* left by an earlier run or put there by hand.
Init ==
    /\ cache_dir \in Categories
    /\ cache \in BOOLEAN
    /\ rebuild \in BOOLEAN
    /\ venues_to_rebuild \in SUBSET Venues
    /\ venues_to_skip \in SUBSET Venues
    /\ files \in FileSystems(Paths, Paths, {Corrupt, Json(1)})
    /\ pc = "idle"
    /\ cur = NoCall
    /\ hist = <<>>
    /\ io = [p \in Paths |-> [reads |-> 0, writes |-> 0]]
    /\ run = NoRun
    /\ NoMerging
    /\ NoAggregation

Next ==
    \/ \E category \in Categories : SetCategory(category)
    \/ \E venue \in Venues : Call(venue)
    \/ \E outcome \in FetchOutcomes : FetchReturns(outcome)

Spec == Init /\ [][Next]_vars

(***************************************************************************)
(* One aggregation run: each category fetch is called once                 *)
(***************************************************************************)
\* The lists a run is started with: no venue, or one.
VenueLists == {{}} \cup {{v} : v \in {"triestecinema", "miela", "verdi"}}

\* cinemas::fetch, theaters::fetch, libraries::fetch: entry, set_category.
CategoryFetch(category) ==
    /\ pc = "idle"
    /\ run.cat = "none"
    /\ category \notin run.done
    /\ cache_dir' = category
    /\ run' = [run EXCEPT !.cat = category, !.idx = 1]
    /\ UNCHANGED <<mergeVars, restVars>>
    /\ UNCHANGED <<cache, rebuild, venues_to_rebuild, venues_to_skip,
                   files, pc, cur, hist, io>>

\* The category fetch in progress calls get_or_fetch for its next venue.
NextVenue ==
    /\ run.cat # "none"
    /\ GetOrFetchCall(VenuesOf(run.cat)[run.idx])

InitRun ==
    /\ cache_dir \in RunCategories
    /\ cache \in BOOLEAN
    /\ rebuild \in BOOLEAN
    /\ venues_to_rebuild \in VenueLists
    /\ venues_to_skip \in VenueLists
    /\ files \in FileSystems(RunPaths, RunKeys, {Corrupt, Json(1)})
    /\ pc = "idle"
    /\ cur = NoCall
    /\ hist = <<>>
    /\ io = [p \in RunPaths |-> [reads |-> 0, writes |-> 0]]
    /\ run = NoRun
    /\ NoMerging
    /\ NoAggregation

\* What a venue's fetch answers during the run.
RunOutcomes == {OkSome(2), Err("fetch")}

NextRun ==
    \/ \E category \in RunCategories : CategoryFetch(category)
    \/ NextVenue
    \/ \E outcome \in RunOutcomes : FetchReturns(outcome)

SpecRun == InitRun /\ [][NextRun]_vars

(***************************************************************************)
(* The working sets of events and their merge steps                        *)
(***************************************************************************)
\* The sequences of 1..n events of `pool`.
Batches(pool, n) == UNION {[1..k -> pool] : k \in 1..n}

\* A merge step of `op` ends: the working set it leaves, what it was given.
Merged(op, result, batch) ==
    /\ events' = result.events
    /\ panicked' = result.panicked
    /\ lastOp' = [op |-> op, before |-> events, batch |-> batch]
    /\ nops' = nops + Len(batch)
    /\ UNCHANGED <<owner, cacheVars, restVars>>

\* A source folds a movie into a group: group.add_movie(movie).
AddMovie(movie) ==
    /\ owner = "MovieGroup"
    /\ ~panicked
    /\ nops < MaxMerges
    /\ Merged("add_movie", add_movie(events, movie), <<movie>>)

\* A caller hands a list of events to EventVariants::add_events.
AddEvents(batch) ==
    /\ owner = "EventVariants"
    /\ ~panicked
    /\ nops + Len(batch) <= MaxMerges
    /\ Merged("add_events", Done(add_events(events, batch)), batch)

\* miela::fetch has parsed the event of one calendar day.
MielaEvent(event) ==
    /\ owner = "miela"
    /\ ~panicked
    /\ nops < MaxMerges
    /\ Merged("miela", miela_merge(events, event), <<event>>)

\* verdi::fetch has parsed the event of one list entry.
VerdiEvent(event) ==
    /\ owner = "verdi"
    /\ ~panicked
    /\ nops < MaxMerges
    /\ Merged("verdi", verdi_insert(events, event), <<event>>)

\* A group as its source first builds it (movies: HashSet::from([movie])), an
\* EventVariants as theaters::fetch builds it (events: vec![event]), or the
\* empty set of a venue fetch (HashSet::new()).
InitMerge ==
    /\ cache_dir = "cinema"
    /\ cache = FALSE
    /\ rebuild = FALSE
    /\ venues_to_rebuild = {}
    /\ venues_to_skip = {}
    /\ files = [p \in Paths |-> Absent]
    /\ pc = "idle"
    /\ cur = NoCall
    /\ hist = <<>>
    /\ io = [p \in Paths |-> [reads |-> 0, writes |-> 0]]
    /\ run = NoRun
    /\ owner \in {"MovieGroup", "EventVariants", "miela", "verdi"}
    /\ events \in CASE owner = "MovieGroup" -> {{e} : e \in EventPool}
                    [] owner = "EventVariants" -> {<<e>> : e \in EventPool}
                    [] OTHER -> {{}}
    /\ panicked = FALSE
    /\ lastOp = NoOp
    /\ nops = 0
    /\ NoAggregation

NextMerge ==
    \/ \E movie \in EventPool : AddMovie(movie)
    \/ \E batch \in Batches(EventPool, MaxMerges - nops) : AddEvents(batch)
    \/ \E event \in MielaPool : MielaEvent(event)
    \/ \E event \in VerdiPool : VerdiEvent(event)

SpecMerge == InitMerge /\ [][NextMerge]_vars

(***************************************************************************)
(* cinemas::fetch: the two sources, the fold, the final order              *)
(***************************************************************************)
\* No cache manager is at work: every source is fetched.
NoCacheManager ==
    /\ cache_dir = "cinema"
    /\ cache = FALSE
    /\ rebuild = FALSE
    /\ venues_to_rebuild = {}
    /\ venues_to_skip = {}
    /\ files = [p \in Paths |-> Absent]
    /\ pc = "idle"
    /\ cur = NoCall
    /\ hist = <<>>
    /\ io = [p \in Paths |-> [reads |-> 0, writes |-> 0]]
    /\ run = NoRun

\* The day of the last link parsed: date_range.iter_days() goes forward.
LastDay(groups) ==
    LET days == UNION {Range(m.time_frame.dates) : m \in UNION {g.movies : g \in groups}}
    IN  IF days = {} THEN 1 ELSE CHOOSE d \in days : \A e \in days : e <= d

Days == {1, 2}

\* What a source step is recorded as: the group it went to, how that group
\* was before, and who has supplied the description of the group since.
StepOf(source, groups, base_title, tags, incoming) ==
    [source |-> source, title |-> base_title, tags |-> tags, incoming |-> incoming,
     before |-> IF HasGroup(groups, base_title)
                THEN GroupAt(groups, base_title).description
                ELSE "Absent",
     was_base |-> <<source, base_title>> \in by_base]

Supplied(source, base_title, tags, assigned) ==
    IF ~assigned THEN by_base
    ELSE IF tags = {} THEN by_base \cup {<<source, base_title>>}
    ELSE by_base \ {<<source, base_title>>}

\* triestecinema::fetch parses one link of the day `curr_date`.
TriestecinemaLink(raw, cinema, curr_date, page) ==
    /\ cpc = "triestecinema"
    /\ nitems < MaxItems
    /\ curr_date >= LastDay(tc_groups)
    /\ LET ct == clean_title(raw)
           id == make_id(ct.base_title, ct.tags)
           known == HasGroup(tc_groups, ct.base_title)
           description ==
               IF known /\ \E m \in GroupAt(tc_groups, ct.base_title).movies : m.id = id
               THEN "None" ELSE page
           left == tc_link(tc_groups, raw, cinema, curr_date, page)
       IN  /\ tc_groups' = left.groups
           /\ cpc' = IF left.panicked THEN "panicked" ELSE cpc
           /\ cstep' = StepOf("triestecinema", tc_groups, ct.base_title, ct.tags, description)
           /\ by_base' = Supplied("triestecinema", ct.base_title, ct.tags,
                             IF known
                             THEN tc_replaces(GroupAt(tc_groups, ct.base_title),
                                              description, ct.tags)
                             ELSE description # "None")
    /\ nitems' = nitems + 1
    /\ UNCHANGED <<ts_groups, movie_groups, movies_out, apiVars, theaterVars, datesVars, cacheVars, mergeVars, parseVars>>

\* A request of triestecinema::fetch fails: `?` returns the error, and the
\* `?` of cinemas::fetch returns it in turn.
TriestecinemaFails ==
    /\ cpc = "triestecinema"
    /\ cpc' = "failed"
    /\ UNCHANGED <<tc_groups, ts_groups, movie_groups, movies_out, cstep, by_base,
                   nitems, apiVars, theaterVars, datesVars, cacheVars, mergeVars, parseVars>>

\* triestecinema::fetch returns its groups; the_space::fetch is called next.
TriestecinemaReturns ==
    /\ cpc = "triestecinema"
    /\ cpc' = "the_space"
    /\ UNCHANGED <<tc_groups, ts_groups, movie_groups, movies_out, cstep, by_base,
                   nitems, apiVars, theaterVars, datesVars, cacheVars, mergeVars, parseVars>>

\* What a call of the API comes back with: a body that decodes and has the
\* `result` array, a body that does not decode, a body that decodes without a
\* `result` array, or no response at all.
ApiOutcomes == {"decoded", "undecodable", "no_result", "unsent"}

\* the retry loop going on for one more attempt
may_call_once_more(att, done) == ~done /\ att <= Attempts + 1

\* while attempt <= 3, until the break
may_call(att, done) == ~done /\ att <= Attempts

\* the_space::fetch calls the API once: a body that decodes ends the loop,
\* one that does not counts as an attempt; unwrap panics when nothing comes
\* back and when the body has no `result` array.
TheSpaceCall(outcome) ==
    /\ cpc = "the_space"
    /\ may_call(attempt, decoded)
    /\ api_calls' = Append(api_calls, outcome)
    /\ decoded' = (outcome = "decoded")
    /\ attempt' = IF outcome = "undecodable" THEN attempt + 1 ELSE attempt
    /\ cpc' = IF outcome \in {"no_result", "unsent"} THEN "panicked" ELSE cpc
    /\ UNCHANGED <<tc_groups, ts_groups, movie_groups, movies_out, cstep, by_base,
                   nitems, theaterVars, datesVars, cacheVars, mergeVars, parseVars>>

\* the_space::fetch parses one session attribute of a listing.
TheSpaceAttribute(raw, description, attr) ==
    /\ cpc = "the_space"
    /\ decoded
    /\ nitems < MaxItems
    /\ LET ct == clean_title(raw)
           left == ts_attr(ts_groups, raw, description, attr)
           made == attr \in SessionAttributes
       IN  /\ ts_groups' = left.groups
           /\ cpc' = IF left.panicked THEN "panicked" ELSE cpc
           /\ cstep' = IF made
                       THEN StepOf("the_space", ts_groups, ct.base_title,
                                   AttrTags(attr), description)
                       ELSE cstep
           /\ by_base' = IF made
                         THEN Supplied("the_space", ct.base_title, AttrTags(attr), TRUE)
                         ELSE by_base
    /\ nitems' = nitems + 1
    /\ UNCHANGED <<tc_groups, movie_groups, movies_out, apiVars, theaterVars, datesVars, cacheVars, mergeVars, parseVars>>

\* the_space::fetch returns its groups (none, when the three attempts failed).
TheSpaceReturns ==
    /\ cpc = "the_space"
    /\ decoded \/ attempt > Attempts
    /\ cpc' = "fold"
    /\ UNCHANGED <<tc_groups, ts_groups, movie_groups, movies_out, cstep, by_base,
                   nitems, apiVars, theaterVars, datesVars, cacheVars, mergeVars, parseVars>>

\* cinemas::fetch from the fold of the two sources to its return.
CinemasCollect ==
    /\ cpc = "fold"
    /\ LET folded == fold_sources(tc_groups, ts_groups)
       IN  /\ movie_groups' = folded.groups
           /\ IF folded.panicked
              THEN /\ cpc' = "panicked"
                   /\ movies_out' = <<>>
              ELSE /\ cpc' = "done"
                   /\ \E movies_by_group \in MoviesByGroup(folded.groups) :
                        movies_out' = Flatten(movies_by_group)
    /\ UNCHANGED <<tc_groups, ts_groups, cstep, by_base, nitems, apiVars, theaterVars, datesVars, cacheVars, mergeVars, parseVars>>

InitCinema ==
    /\ NoCacheManager
    /\ NoParsing
    /\ NoMerging
    /\ NoTheaterRun
    /\ NoDates
    /\ cpc = "triestecinema"
    /\ tc_groups = {}
    /\ ts_groups = {}
    /\ movie_groups = {}
    /\ movies_out = <<>>
    /\ cstep = NoStep
    /\ by_base = {}
    /\ nitems = 0
    /\ attempt = 1
    /\ api_calls = <<>>
    /\ decoded = FALSE

NextCinema ==
    \/ \E raw \in RawTitles, curr_date \in Days, page \in Descriptions \cup {"None"} :
          TriestecinemaLink(raw, "Ariston", curr_date, page)
    \/ TriestecinemaFails
    \/ TriestecinemaReturns
    \/ \E raw \in RawTitles, description \in Descriptions,
          attr \in SessionAttributes \cup {"IMAX"} :
          TheSpaceAttribute(raw, description, attr)
    \/ \E outcome \in ApiOutcomes : TheSpaceCall(outcome)
    \/ TheSpaceReturns
    \/ CinemasCollect

SpecCinema == InitCinema /\ [][NextCinema]_vars

(***************************************************************************)
(* theaters::fetch: the four venues, the sort, one EventVariants per event *)
(***************************************************************************)
\* The events a theater venue returns: Event::new(title, {venue}, "Teatri"),
\* its id its title, with the Dates frame of a day.
TheaterTitles == {<<"x">>, <<"y">>}
TheaterEvent(title, venue) == Event(title, title, {venue}, Dates(<<1>>), {})
TheaterResults(venue) == {{TheaterEvent(t, venue) : t \in ts} : ts \in SUBSET TheaterTitles}

\* A Vec collected from a set: its elements, each once, in any order.
Vecs(set) == {s \in [1..Cardinality(set) -> set] : Range(s) = set}

\* [hangarteatri, miela, rossetti, verdi].concat()
RECURSIVE Concat(_)
Concat(vecs) == IF vecs = <<>> THEN <<>> ELSE Head(vecs) \o Concat(Tail(vecs))

\* impl Ord for Event: by title
EventLess(a, b) == StrLess(a.title, b.title)

\* events.sort(): the sort is stable, events of equal titles keep their order.
\* `event` goes after the events of `sorted` that are not greater than it.
InsertSorted(sorted, event) ==
    LET before == {i \in DOMAIN sorted : ~EventLess(event, sorted[i])}
        k == IF before = {} THEN 0 ELSE CHOOSE i \in before : \A j \in before : j <= i
    IN  SubSeq(sorted, 1, k) \o <<event>> \o SubSeq(sorted, k + 1, Len(sorted))

RECURSIVE Sorted(_)
Sorted(list) ==
    IF list = <<>> THEN <<>>
    ELSE InsertSorted(Sorted(SubSeq(list, 1, Len(list) - 1)), list[Len(list)])

\* EventVariants { id: event.title, title: event.title, .., events: vec![event] }
EventVariantsOf(event) == [id |-> event.title, title |-> event.title, events |-> <<event>>]

\* A get_or_fetch of theaters::fetch returns the events of the next venue.
TheaterVenueReturns(result) ==
    /\ tpc = "fetching"
    /\ Len(th_results) < Len(TheaterVenues)
    /\ th_results' = Append(th_results, result)
    /\ UNCHANGED <<tpc, th_variants, cinemaVars, datesVars, cacheVars, mergeVars, parseVars>>

\* A get_or_fetch of theaters::fetch returns an error: `?` returns it.
TheaterVenueFails ==
    /\ tpc = "fetching"
    /\ Len(th_results) < Len(TheaterVenues)
    /\ tpc' = "failed"
    /\ UNCHANGED <<th_results, th_variants, cinemaVars, datesVars, cacheVars, mergeVars, parseVars>>

\* theaters::fetch from the concat of the four results to its return.
TheatersCollect ==
    /\ tpc = "fetching"
    /\ Len(th_results) = Len(TheaterVenues)
    /\ \E vecs \in [DOMAIN th_results -> UNION {Vecs(th_results[i]) : i \in DOMAIN th_results}] :
        /\ \A i \in DOMAIN th_results : vecs[i] \in Vecs(th_results[i])
        /\ LET sorted == Sorted(Concat(vecs))
           IN  th_variants' = [i \in DOMAIN sorted |-> EventVariantsOf(sorted[i])]
    /\ tpc' = "done"
    /\ UNCHANGED <<th_results, cinemaVars, datesVars, cacheVars, mergeVars, parseVars>>

InitTheaters ==
    /\ NoCacheManager
    /\ NoParsing
    /\ NoMerging
    /\ NoCinemaRun
    /\ NoDates
    /\ tpc = "fetching"
    /\ th_results = <<>>
    /\ th_variants = <<>>

NextTheaters ==
    \/ \E i \in DOMAIN TheaterVenues :
          /\ i = Len(th_results) + 1
          /\ \E result \in TheaterResults(TheaterVenues[i]) : TheaterVenueReturns(result)
    \/ TheaterVenueFails
    \/ TheatersCollect

SpecTheaters == InitTheaters /\ [][NextTheaters]_vars

(***************************************************************************)
(* DateRange                                                               *)
(***************************************************************************)
\* DateRange::new(start_date, end_date), the days being numbered; nothing
\* makes the start come before the end.
DateRange(start_date, end_date) == [start_date |-> start_date, end_date |-> end_date]
DateRanges == {DateRange(s, e) : s, e \in 1..MaxDay}

\* the start compared strictly
overlaps_strict(self, other) ==
    self.start_date < other.end_date /\ self.end_date >= other.start_date

\* overlaps with both comparisons strict
overlaps_apart(self, other) ==
    self.start_date < other.end_date /\ self.end_date > other.start_date

\* DateRange::overlaps
overlaps(self, other) ==
    self.start_date <= other.end_date /\ self.end_date >= other.start_date

\* DateRange::contains
contains(self, date) == date >= self.start_date /\ date <= self.end_date

\* A caller asks range_a.overlaps(&range_b).
OverlapsAB ==
    /\ answers.ab = "unasked"
    /\ answers' = [answers EXCEPT !.ab = Answer(overlaps(range_a, range_b))]
    /\ UNCHANGED <<range_a, range_b, shared_days, cinemaVars, theaterVars, cacheVars, mergeVars, parseVars>>

\* A caller asks range_b.overlaps(&range_a).
OverlapsBA ==
    /\ answers.ba = "unasked"
    /\ answers' = [answers EXCEPT !.ba = Answer(overlaps(range_b, range_a))]
    /\ UNCHANGED <<range_a, range_b, shared_days, cinemaVars, theaterVars, cacheVars, mergeVars, parseVars>>

\* A caller asks both ranges, day by day, whether they contain the day.
ContainsBoth ==
    /\ ~shared_days.asked
    /\ shared_days' = [asked |-> TRUE,
                       days |-> {d \in 1..MaxDay : contains(range_a, d) /\ contains(range_b, d)}]
    /\ UNCHANGED <<range_a, range_b, answers, cinemaVars, theaterVars, cacheVars, mergeVars, parseVars>>

InitDates ==
    /\ NoCacheManager
    /\ NoParsing
    /\ NoMerging
    /\ NoCinemaRun
    /\ NoTheaterRun
    /\ range_a \in DateRanges
    /\ range_b \in DateRanges
    /\ answers = NoAnswers
    /\ shared_days = NoDays

NextDates == OverlapsAB \/ OverlapsBA \/ ContainsBoth

SpecDates == InitDates /\ [][NextDates]_vars

(***************************************************************************)
(* Verdi: parse_date                                                       *)
(***************************************************************************)
\* A date string is held as its comma-separated parts, each part as the
\* sequence of its whitespace-separated words; a string without a comma is one
\* part, and the empty string is one part without words.

\* The words that are decimal numerals, with their values.
Numerals ==
    ("5" :> 5) @@ ("7" :> 7) @@ ("11" :> 11) @@ ("12" :> 12) @@ ("13" :> 13) @@
    ("14" :> 14) @@ ("24" :> 24) @@ ("28" :> 28) @@ ("29" :> 29) @@ ("30" :> 30) @@
    ("31" :> 31) @@ ("2025" :> 2025) @@ ("2026" :> 2026)

\* The numerals written with a leading zero.
PaddedNumerals == ("02" :> 2) @@ ("07" :> 7)

\* Option<u32> and Option<&str> of a tuple that has no value yet
NoNumber == 0
NoWord == "None"

\* str::parse::<u32>
parse_u32(word) ==
    IF word \in DOMAIN Numerals THEN [ok |-> TRUE, val |-> Numerals[word]]
    ELSE IF word \in DOMAIN PaddedNumerals THEN [ok |-> TRUE, val |-> PaddedNumerals[word]]
    ELSE [ok |-> FALSE, val |-> NoNumber]

\* a u32 written out by format!
format_u32(n) == CHOOSE word \in DOMAIN Numerals : Numerals[word] = n

\* The table of Italian month names; a word that is no month name gives None.
MonthNames == ("novembre" :> 11) @@ ("dicembre" :> 12)
italian_month_to_number(month_name) ==
    IF month_name \in DOMAIN MonthNames THEN MonthNames[month_name] ELSE NoNumber

\* the days of a month of a year that is not a leap year
DaysIn(month) ==
    IF month \in {4, 6, 9, 11} THEN 30 ELSE IF month = 2 THEN 28 ELSE 31

\* A calendar date as a number that orders as the calendar does.
NaiveDate(year, month, day) == year * 10000 + month * 100 + day

\* NaiveDate::from_ymd_opt
from_ymd_opt(year, month, day) ==
    IF month \in 1..12 /\ day \in 1..DaysIn(month)
    THEN [ok |-> TRUE, val |-> NaiveDate(year, month, day)]
    ELSE [ok |-> FALSE, val |-> NoNumber]

\* NaiveDate::parse_from_str(.., "%d/%m/%Y") of the three words between the
\* slashes: %d and %m take at most two digits, %Y at most four.
parse_from_str_dmy(day, month, year) ==
    LET d == parse_u32(day)
        m == parse_u32(month)
        y == parse_u32(year)
    IN  IF d.ok /\ m.ok /\ y.ok /\ d.val <= 99 /\ m.val <= 99 /\ y.val <= 9999
        THEN from_ymd_opt(y.val, m.val, d.val)
        ELSE [ok |-> FALSE, val |-> NoNumber]

\* Option<DateSet>, and the unwinding of a panic
NoDateSet == [tag |-> "None", dates |-> <<>>]
SomeDateSet(dates) == [tag |-> "Some", dates |-> dates]
ParsePanic == [tag |-> "Panic", dates |-> <<>>]

\* parse_single_date
verdi_parse_single_date(parts) ==
    IF Len(parts) < 4 THEN NoDateSet
    ELSE LET month == italian_month_to_number(parts[3])
         IN  IF month = NoNumber THEN NoDateSet
             ELSE LET date == parse_from_str_dmy(parts[2], format_u32(month), parts[4])
                  IN  IF date.ok THEN SomeDateSet(<<date.val>>) ELSE NoDateSet

DateTuple(day, month, year) == [day |-> day, month |-> month, year |-> year]

\* The second loop of parse_multiple_dates run from the first tuple to the
\* last, with the year of the last tuple for every tuple.
RECURSIVE fill_forward(_, _, _)
fill_forward(date_tuples, i, current_month) ==
    IF i > Len(date_tuples) THEN date_tuples
    ELSE LET t == date_tuples[i]
             month == IF t.month # NoNumber THEN t.month ELSE current_month
             year == date_tuples[Len(date_tuples)].year
         IN  fill_forward([date_tuples EXCEPT ![i] = DateTuple(t.day, month, year)],
                          i + 1, month)

\* The first loop of parse_multiple_dates from part i on: the tuples it has
\* pushed, or the return or the panic that ended it.
RECURSIVE collect_tuples(_, _, _)
collect_tuples(parts, i, date_tuples) ==
    IF i > Len(parts) THEN [tag |-> "ok", tuples |-> date_tuples]
    ELSE LET sub_parts == parts[i]
             day == parse_u32(sub_parts[1])
             month == italian_month_to_number(sub_parts[2])
         IN  IF i = Len(parts)
             THEN IF Len(sub_parts) < 3 THEN [tag |-> "None", tuples |-> <<>>]
                  ELSE IF ~day.ok THEN [tag |-> "Panic", tuples |-> <<>>]
                  ELSE collect_tuples(parts, i + 1,
                           IF month # NoNumber
                           THEN Append(date_tuples, DateTuple(day.val, month, sub_parts[3]))
                           ELSE date_tuples)
             ELSE IF Len(sub_parts) = 1
             THEN IF ~day.ok THEN [tag |-> "Panic", tuples |-> <<>>]
                  ELSE collect_tuples(parts, i + 1,
                           Append(date_tuples, DateTuple(day.val, NoNumber, NoWord)))
             ELSE IF Len(sub_parts) = 2
             THEN IF ~day.ok THEN [tag |-> "Panic", tuples |-> <<>>]
                  ELSE collect_tuples(parts, i + 1,
                           IF month # NoNumber
                           THEN Append(date_tuples, DateTuple(day.val, month, NoWord))
                           ELSE date_tuples)
             ELSE collect_tuples(parts, i + 1, date_tuples)

\* The second loop, from tuple i backwards: a tuple without a month or a year
\* takes the one being carried, a tuple with one replaces what is carried.
RECURSIVE fill_back(_, _, _, _)
fill_back(date_tuples, i, current_month, current_year) ==
    IF i = 0 THEN date_tuples
    ELSE LET t == date_tuples[i]
             month == IF t.month # NoNumber THEN t.month ELSE current_month
             year == IF t.year # NoWord THEN t.year ELSE current_year
         IN  fill_back([date_tuples EXCEPT ![i] = DateTuple(t.day, month, year)],
                       i - 1, month, year)

\* The third loop, from tuple i on: the dates of the tuples that are complete
\* and name a day of the calendar.
RECURSIVE to_dates(_, _)
to_dates(date_tuples, i) ==
    IF i > Len(date_tuples) THEN <<>>
    ELSE LET t == date_tuples[i]
             date == IF t.month # NoNumber /\ t.year # NoWord
                     THEN parse_from_str_dmy(format_u32(t.day), format_u32(t.month), t.year)
                     ELSE [ok |-> FALSE, val |-> NoNumber]
         IN  (IF date.ok THEN <<date.val>> ELSE <<>>) \o to_dates(date_tuples, i + 1)

\* parse_multiple_dates with the months carried the other way
parse_multiple_dates_forward(parts) ==
    IF Len(parts) < 2 THEN NoDateSet
    ELSE LET collected == collect_tuples(parts, 1, <<>>)
         IN  IF collected.tag = "None" THEN NoDateSet
             ELSE IF collected.tag = "Panic" THEN ParsePanic
             ELSE LET dates == to_dates(fill_forward(collected.tuples, 1, NoNumber), 1)
                  IN  IF dates = <<>> THEN NoDateSet ELSE SomeDateSet(dates)

\* parse_multiple_dates
parse_multiple_dates(parts) ==
    IF Len(parts) < 2 THEN NoDateSet
    ELSE LET collected == collect_tuples(parts, 1, <<>>)
         IN  IF collected.tag = "None" THEN NoDateSet
             ELSE IF collected.tag = "Panic" THEN ParsePanic
             ELSE LET filled == fill_back(collected.tuples, Len(collected.tuples),
                                          NoNumber, NoWord)
                      dates == to_dates(filled, 1)
                  IN  IF dates = <<>> THEN NoDateSet ELSE SomeDateSet(dates)

\* parse_date
verdi_parse_date(date_str) ==
    IF date_str = <<<<>>>> THEN NoDateSet
    ELSE IF Len(date_str) >= 2 THEN parse_multiple_dates(date_str)
    ELSE verdi_parse_single_date(date_str[1])

\* The words a part of a calendar string is made of here.
DayWords == {"5", "31", "x"}
MonthWords == {"novembre", "dicembre", "foo"}
RegularParts == {<<d>> : d \in DayWords} \cup {<<d, m>> : d \in DayWords, m \in MonthWords}
LastParts == {<<d, m, "2025">> : d \in DayWords, m \in MonthWords} \cup {<<"5", "dicembre">>}

\* "28, 30 novembre, 5, 7, 11, 13 dicembre 2025"
TestMultipleDatesDiffMonth ==
    << <<"28">>, <<"30", "novembre">>, <<"5">>, <<"7">>, <<"11">>,
       <<"13", "dicembre", "2025">> >>

\* The date strings parse_date is given: lists of up to MaxParts parts, the
\* list of the test, strings without a comma, and the empty string.
VerdiStrings ==
    {front \o <<last>> :
        front \in UNION {[1..n -> RegularParts] : n \in 1..(MaxParts - 1)},
        last \in LastParts}
    \cup {TestMultipleDatesDiffMonth, <<<<>>>>, << <<"5", "dicembre", "2025">> >>}
    \cup {<< <<"sabato", d, m, "2025">> >> : d \in DayWords, m \in MonthWords}

\* The parser is called on the string.
VerdiParseDate ==
    /\ verdi_out = Unparsed
    /\ verdi_out' = verdi_parse_date(verdi_in)
    /\ UNCHANGED <<verdi_in, customVars, idVars, cinemaVars, theaterVars, datesVars, cacheVars, mergeVars>>

InitVerdi ==
    /\ NoCacheManager
    /\ NoMerging
    /\ NoCinemaRun
    /\ NoTheaterRun
    /\ NoDates
    /\ NoCustom
    /\ NoIds
    /\ verdi_in \in VerdiStrings
    /\ verdi_out = Unparsed

NextVerdi == VerdiParseDate

SpecVerdi == InitVerdi /\ [][NextVerdi]_vars

(***************************************************************************)
(* custom: parse_date, fetch                                               *)
(***************************************************************************)
\* A date string of the custom events file is held as the words between its
\* dashes; a `date` value is a string, held as the pieces around its slash, or
\* an array of strings, or missing.

\* the order of the fields in the formats "%d-%m-%Y" and "%Y-%m-%d"
DayFirst == <<"d", "m", "Y">>
YearFirst == <<"Y", "m", "d">>

\* NaiveDate::parse_from_str(date_str, fmt): %d and %m take at most two
\* digits, %Y at most four, and nothing may be left over.
parse_from_str(date_str, fmt) ==
    IF Len(date_str) # 3 THEN [ok |-> FALSE, val |-> NoNumber]
    ELSE LET n == [i \in 1..3 |-> parse_u32(date_str[i])]
             fits(i) == n[i].ok /\ n[i].val <= (IF fmt[i] = "Y" THEN 9999 ELSE 99)
             field(c) == n[CHOOSE i \in 1..3 : fmt[i] = c].val
         IN  IF \A i \in 1..3 : fits(i)
             THEN from_ymd_opt(field("Y"), field("m"), field("d"))
             ELSE [ok |-> FALSE, val |-> NoNumber]

StrValue(items) == [kind |-> "str", items |-> items]
ArrayValue(items) == [kind |-> "array", items |-> items]

\* the strings of an array that parse, in the order of the array
RECURSIVE array_dates(_, _)
array_dates(items, fmt) ==
    IF items = <<>> THEN <<>>
    ELSE LET date == parse_from_str(items[1], fmt)
         IN  (IF date.ok THEN <<date.val>> ELSE <<>>) \o array_dates(Tail(items), fmt)

\* custom::parse_date
custom_parse_date(value) ==
    IF value.kind = "array"
    THEN LET dates == array_dates(value.items, DayFirst)
         IN  IF dates = <<>> THEN NoneTF ELSE Dates(dates)
    ELSE IF value.kind = "str" /\ Len(value.items) = 2
    THEN LET start_date == parse_from_str(value.items[1], YearFirst)
             end_date == parse_from_str(value.items[2], YearFirst)
         IN  IF start_date.ok /\ end_date.ok
             THEN Period(start_date.val, end_date.val) ELSE NoneTF
    ELSE IF value.kind = "str"
    THEN LET date == parse_from_str(value.items[1], YearFirst)
         IN  IF date.ok THEN Dates(<<date.val>>) ELSE NoneTF
    ELSE NoneTF

\* TimeFrame::as_range: the range from the first to the last date of a Dates
\* frame, the range of a Period frame.
as_range(time_frame) ==
    IF time_frame.kind = "Dates"
    THEN DateRange(CHOOSE d \in Range(time_frame.dates) : \A e \in Range(time_frame.dates) : d <= e,
                   CHOOSE d \in Range(time_frame.dates) : \A e \in Range(time_frame.dates) : d >= e)
    ELSE DateRange(time_frame.start, time_frame.end)

\* An entry of the `events` array: its title, if it has one, and its date.
CustomEntry(has_title, title, date) == [has_title |-> has_title, title |-> title, date |-> date]

\* parse_event_table, then load_custom_events: the events of the entries that
\* have a title, in the order of the file.
RECURSIVE load_custom_events(_)
load_custom_events(entries) ==
    IF entries = <<>> THEN <<>>
    ELSE LET table == entries[1]
             event == Event(table.title, table.title, {}, custom_parse_date(table.date), {})
         IN  (IF table.has_title THEN <<event>> ELSE <<>>) \o load_custom_events(Tail(entries))

\* the filter of fetch
RECURSIVE custom_filter(_, _)
custom_filter(custom_events, date_range) ==
    IF custom_events = <<>> THEN <<>>
    ELSE LET e == custom_events[1]
             keep == e.time_frame # NoneTF /\ overlaps(as_range(e.time_frame), date_range)
         IN  (IF keep THEN <<e>> ELSE <<>>) \o custom_filter(Tail(custom_events), date_range)

\* custom::fetch without the sort
custom_fetch_unsorted(entries, date_range) ==
    custom_filter(load_custom_events(entries), date_range)

\* custom::fetch
custom_fetch(entries, date_range) ==
    Sorted(custom_filter(load_custom_events(entries), date_range))

\* The words a date string of the file is made of here, and the strings.
CustomWords == {"24", "07", "2026"}
CustomStrings == {<<a, b, c>> : a, b, c \in CustomWords}

\* "24-07-2026", ["11-02-2026", "13-02-2026", "14-02-2026"] and
\* "12-07-2026/29-12-2026"
TestSingleDate == StrValue(<< <<"24", "07", "2026">> >>)
TestMultipleDate ==
    ArrayValue(<< <<"11", "02", "2026">>, <<"13", "02", "2026">>, <<"14", "02", "2026">> >>)
TestDateRange == StrValue(<< <<"12", "07", "2026">>, <<"29", "12", "2026">> >>)

\* The `date` values parse_date is given: strings with and without a slash,
\* arrays of up to MaxArray strings, the values of the tests, a missing value.
CustomValues ==
    {StrValue(<<a>>) : a \in CustomStrings}
    \cup {StrValue(<<a, b>>) : a, b \in CustomStrings}
    \cup {ArrayValue(items) : items \in UNION {[1..n -> CustomStrings] : n \in 0..MaxArray}}
    \cup {TestSingleDate, TestMultipleDate, TestDateRange, NoValue}

\* parse_date is called on the value.
CustomParseDate ==
    /\ custom_frame = NoFrame
    /\ custom_frame' = custom_parse_date(custom_value)
    /\ UNCHANGED <<custom_value, custom_in, custom_window, custom_out, verdiVars, idVars,
                   cinemaVars, theaterVars, datesVars, cacheVars, mergeVars>>

InitCustomDate ==
    /\ NoCacheManager
    /\ NoMerging
    /\ NoCinemaRun
    /\ NoTheaterRun
    /\ NoDates
    /\ NoVerdi
    /\ NoIds
    /\ custom_value \in CustomValues
    /\ custom_frame = NoFrame
    /\ custom_in = <<>>
    /\ custom_window = [start_date |-> 1, end_date |-> 1]
    /\ custom_out = NotFetched

NextCustomDate == CustomParseDate

SpecCustomDate == InitCustomDate /\ [][NextCustomDate]_vars

\* The dates of the entries of a file: none, a day of the week asked for
\* written day first and year first, another day year first, an array with
\* a day of the week and a day after it, a range around the week, a range
\* before it, and a word that is no date.
EntryDates ==
    {NoValue,
     StrValue(<< <<"24", "07", "2026">> >>),
     StrValue(<< <<"2026", "07", "24">> >>),
     StrValue(<< <<"2026", "12", "29">> >>),
     ArrayValue(<< <<"24", "07", "2026">>, <<"29", "12", "2026">> >>),
     StrValue(<< <<"2026", "07", "12">>, <<"2026", "12", "29">> >>),
     StrValue(<< <<"2026", "07", "12">>, <<"2026", "07", "14">> >>),
     StrValue(<< <<"x">> >>)}
CustomTitles == {<<"x">>, <<"y">>}
CustomEntries ==
    {CustomEntry(TRUE, t, d) : t \in CustomTitles, d \in EntryDates}
    \cup {CustomEntry(FALSE, <<>>, d) : d \in EntryDates}
CustomFiles == UNION {[1..n -> CustomEntries] : n \in 0..MaxEntries}

\* The weeks fetch is asked for.
CustomWindows ==
    {DateRange(NaiveDate(2026, 7, 20), NaiveDate(2026, 7, 26)),
     DateRange(NaiveDate(2026, 12, 28), NaiveDate(2026, 12, 31))}

\* fetch is called on the file for the week.
CustomFetch ==
    /\ ~custom_out.returned
    /\ custom_out' = [returned |-> TRUE, events |-> custom_fetch(custom_in, custom_window)]
    /\ UNCHANGED <<custom_value, custom_frame, custom_in, custom_window, verdiVars, idVars,
                   cinemaVars, theaterVars, datesVars, cacheVars, mergeVars>>

InitCustom ==
    /\ NoCacheManager
    /\ NoMerging
    /\ NoCinemaRun
    /\ NoTheaterRun
    /\ NoDates
    /\ NoVerdi
    /\ NoIds
    /\ custom_value = NoValue
    /\ custom_frame = NoFrame
    /\ custom_in \in CustomFiles
    /\ custom_window \in CustomWindows
    /\ custom_out = NotFetched

NextCustom == CustomFetch

SpecCustom == InitCustom /\ [][NextCustom]_vars

(***************************************************************************)
(* cinemas: make_id                                                        *)
(***************************************************************************)
\* The base titles clean_title gives, and the tag sets with every order a
\* HashSet may iterate them in.
BaseTitles == {clean_title(raw).base_title : raw \in RawTitles}
TagVecs == UNION {Vecs(tags) : tags \in SUBSET Range(TagOrder)}

\* make_id is called with the tags iterated in the first order.
MakeIdA ==
    /\ ~ids.a.made
    /\ ids' = [ids EXCEPT !.a = [made |-> TRUE, id |-> make_id_iterated(id_base, id_tags.a)]]
    /\ UNCHANGED <<id_base, id_tags, verdiVars, customVars,
                   cinemaVars, theaterVars, datesVars, cacheVars, mergeVars>>

\* make_id is called with the tags iterated in the second order.
MakeIdB ==
    /\ ~ids.b.made
    /\ ids' = [ids EXCEPT !.b = [made |-> TRUE, id |-> make_id_iterated(id_base, id_tags.b)]]
    /\ UNCHANGED <<id_base, id_tags, verdiVars, customVars,
                   cinemaVars, theaterVars, datesVars, cacheVars, mergeVars>>

InitIds ==
    /\ NoCacheManager
    /\ NoMerging
    /\ NoCinemaRun
    /\ NoTheaterRun
    /\ NoDates
    /\ NoVerdi
    /\ NoCustom
    /\ id_base \in BaseTitles
    /\ id_tags \in [a : TagVecs, b : TagVecs]
    /\ ids = [a |-> NoId, b |-> NoId]

NextIds == MakeIdA \/ MakeIdB

SpecIds == InitIds /\ [][NextIds]_vars

(***************************************************************************)
(* Result cache: properties                                                *)
(***************************************************************************)
Calls == {hist[i] : i \in DOMAIN hist}

\* The cache file of the (category, venue) a call was made for.
KeyOf(r) == <<r.category, r.venue>>

\* The cache-hit conditions of a call, from the manager's fields and the files
\* as they were when the call was made.
HitConditions(r) ==
    /\ cache
    /\ ~rebuild
    /\ r.venue \notin venues_to_rebuild
    /\ r.pre[KeyOf(r)] # Absent

\* C1: a call for a venue that is not skipped, with caching enabled, no global
\* rebuild, the venue not in the forced-rebuild list and a cache file present,
\* never calls the fetcher and never writes the cache, and returns what the
\* file deserializes to.
C1_CacheHitBypassesFetch ==
    \A r \in Calls :
        (r.venue \notin venues_to_skip /\ HitConditions(r)) =>
            /\ r.fetched = 0
            /\ r.writes = 0
            /\ r.post = r.pre
            /\ r.pre[KeyOf(r)].tag = "json" =>
                   r.result = OkSome(r.pre[KeyOf(r)].val)

C1_Witness ==
    \E r \in Calls :
        /\ r.venue \notin venues_to_skip
        /\ HitConditions(r)
        /\ r.pre[KeyOf(r)] = Json(1)
        /\ r.result = OkSome(1)

\* C2: a call for a venue in the skip list returns Ok(None), calls neither the
\* fetcher nor fs::exists, read_to_string or fs::write, and leaves every file
\* as it was, whatever the flags, the forced-rebuild list and the files are.
C2_SkipTouchesNothing ==
    \A r \in Calls :
        r.venue \in venues_to_skip =>
            /\ r.result = OkNone
            /\ r.fetched = 0
            /\ r.probes = 0
            /\ r.reads = 0
            /\ r.writes = 0
            /\ r.post = r.pre

C2_Witness ==
    \E r \in Calls :
        /\ r.venue \in venues_to_skip
        /\ r.venue \in venues_to_rebuild
        /\ r.pre[KeyOf(r)] # Absent
        /\ cache
        /\ r.result = OkNone

C4_FetchErrorLeavesCache ==
    \A r \in Calls :
        r.outcome.tag = "Err" =>
            /\ r.result = r.outcome
            /\ r.writes = 0
            /\ r.post = r.pre

C4_Witness ==
    \E r \in Calls :
        /\ r.outcome.tag = "Err"
        /\ cache
        /\ r.fetched = 1
        /\ r.pre[KeyOf(r)] = Json(1)
        /\ r.post[KeyOf(r)] = Json(1)

\* Two successive calls for the same (category, venue), the first made on an
\* empty cache, with caching enabled, no rebuild forced, the venue neither
\* skipped nor in the forced-rebuild list.
RoundTrip(i) ==
    /\ i \in DOMAIN hist
    /\ i + 1 \in DOMAIN hist
    /\ KeyOf(hist[i]) = KeyOf(hist[i + 1])
    /\ \A p \in DOMAIN hist[i].pre : hist[i].pre[p] = Absent
    /\ cache
    /\ ~rebuild
    /\ hist[i].venue \notin venues_to_skip
    /\ hist[i].venue \notin venues_to_rebuild

\* C5: in such a pair of calls whose first call returned data, the fetcher is
\* called once in total and the second call returns the data of the first.
C5_CacheRoundTrip ==
    \A i \in DOMAIN hist :
        (RoundTrip(i) /\ hist[i].result.tag = "OkSome") =>
            /\ hist[i].fetched + hist[i + 1].fetched = 1
            /\ hist[i + 1].result = hist[i].result

C5_Witness ==
    \E i \in DOMAIN hist :
        /\ RoundTrip(i)
        /\ hist[i].result = OkSome(2)
        /\ hist[i].fetched = 1
        /\ hist[i + 1].fetched = 0
        /\ hist[i + 1].result = OkSome(2)

\* C6: a call that finds a cache file it cannot deserialize treats it as a
\* cache miss: it calls the fetcher and, when the fetcher succeeds, returns the
\* fetched payload, not an error.
C6_CorruptCacheIsMiss ==
    \A r \in Calls :
        (r.venue \notin venues_to_skip /\ r.pre[KeyOf(r)] = Corrupt) =>
            /\ r.fetched = 1
            /\ r.outcome.tag = "OkSome" => r.result = r.outcome

\* C7: a call made for venue v under category c forms the cache path of (c, v)
\* and leaves the file of every other (category, venue) as it was.
C7_OnlyOwnEntry ==
    /\ pc = "fetching" => cur.path = KeyOf(cur)
    /\ \A r \in Calls :
        /\ r.path = KeyOf(r)
        /\ \A p \in DOMAIN r.pre : p # KeyOf(r) => r.post[p] = r.pre[p]

C7_Witness ==
    \E i \in DOMAIN hist :
        /\ i > 1
        /\ hist[i].category # hist[i - 1].category
        /\ hist[i].venue \in venues_to_rebuild
        /\ hist[i].writes = 1
        /\ hist[i].post[KeyOf(hist[i])] # hist[i].pre[KeyOf(hist[i])]
        /\ \E p \in DOMAIN hist[i].pre :
               p # KeyOf(hist[i]) /\ hist[i].pre[p] # Absent

\* C8: during one aggregation run every cache file is read at most once and
\* written at most once.
C8_ReadWriteAtMostOncePerRun ==
    \A p \in DOMAIN io : io[p].reads <= 1 /\ io[p].writes <= 1

C8_Witness ==
    /\ run.done = RunCategories
    /\ \E p \in DOMAIN io : io[p].reads = 1
    /\ \E p \in DOMAIN io : io[p].writes = 1

(***************************************************************************)
(* Merge on collision: properties                                          *)
(***************************************************************************)
\* The events of a working set, their number, and how many have a given id.
MembersOf(ws) == IF owner = "EventVariants" THEN Range(ws) ELSE ws
SizeOf(ws) == IF owner = "EventVariants" THEN Len(ws) ELSE Cardinality(ws)
CountId(ws, id) ==
    IF owner = "EventVariants"
    THEN Cardinality({i \in DOMAIN ws : ws[i].id = id})
    ELSE Cardinality({x \in ws : x.id = id})

\* The events the last step was given that have the id `id`.
Incoming(id) == {e \in Range(lastOp.batch) : e.id = id}

\* The events stored before the last step whose id came in again with it.
Collided == {x \in MembersOf(lastOp.before) : Incoming(x.id) # {}}

\* C9: after add_movie or add_events has merged events into a group, every
\* stored event whose id came in again is still the one event of that id, with
\* its own id, title and tags, its locations those it had together with those
\* that came in; and the group has grown only by the ids it did not hold.
C9_MergeKeepsIdentity ==
    (lastOp.op \in {"add_movie", "add_events"} /\ ~panicked) =>
        /\ \A stored \in Collided :
            /\ CountId(events, stored.id) = 1
            /\ \A e \in MembersOf(events) :
                e.id = stored.id =>
                    /\ e.title = stored.title
                    /\ e.tags = stored.tags
                    /\ e.locations = stored.locations \cup
                           UNION {inc.locations : inc \in Incoming(stored.id)}
        /\ SizeOf(events) = SizeOf(lastOp.before) +
               Cardinality({e.id : e \in Range(lastOp.batch)} \
                           {x.id : x \in MembersOf(lastOp.before)})

C9_Witness ==
    /\ lastOp.op = "add_movie"
    /\ ~panicked
    /\ \E stored \in Collided :
        \E inc \in Incoming(stored.id) :
            /\ inc.locations \cap stored.locations = {}
            /\ inc.title # stored.title
            /\ inc.tags # stored.tags
            /\ \E e \in events :
                /\ e.id = stored.id
                /\ e.locations = stored.locations \cup inc.locations

\* C10: in every working set, after a step in which an event came in whose id
\* was already present, the stored event has all the locations that came in
\* and, when the stored and the incoming event both had a Dates frame, a Dates
\* frame with the dates of both.
C10_NothingDropped ==
    (lastOp.op # "none" /\ ~panicked) =>
        \A stored \in Collided :
            \A inc \in Incoming(stored.id) :
                /\ CountId(events, stored.id) = 1
                /\ \A e \in MembersOf(events) :
                    e.id = stored.id =>
                        /\ inc.locations \subseteq e.locations
                        /\ (stored.time_frame.kind = "Dates" /\
                            inc.time_frame.kind = "Dates") =>
                               /\ e.time_frame.kind = "Dates"
                               /\ Range(stored.time_frame.dates) \cup
                                  Range(inc.time_frame.dates)
                                      \subseteq Range(e.time_frame.dates)

(***************************************************************************)
(* Time frames on collision: properties                                    *)
(***************************************************************************)
\* C11: after add_movie or the merge step of miela::fetch, whenever a stored
\* event and an incoming event of the same id had a Dates frame and a Period
\* frame (in either order), the step has panicked and has left no event of
\* that id with a frame chosen from the two.
C11_CrossKindFailsLoudly ==
    lastOp.op \in {"add_movie", "miela"} =>
        \A stored \in Collided :
            \A inc \in Incoming(stored.id) :
                {stored.time_frame.kind, inc.time_frame.kind} = {"Dates", "Period"} =>
                    /\ panicked
                    /\ \A e \in MembersOf(events) : e.id # stored.id

C11_Witness ==
    /\ lastOp.op = "add_movie"
    /\ panicked
    /\ \E stored \in Collided :
        \E inc \in Incoming(stored.id) :
            /\ stored.time_frame.kind = "Period"
            /\ inc.time_frame.kind = "Dates"

C29_FrameKeptUnlessBothHaveOne ==
    (lastOp.op = "add_movie" /\ ~panicked) =>
        \A stored \in Collided :
            \A inc \in Incoming(stored.id) :
                (stored.time_frame = NoneTF \/ inc.time_frame = NoneTF) =>
                    \A e \in MembersOf(events) :
                        e.id = stored.id => e.time_frame = stored.time_frame

\* A stored event without a frame has met an incoming one with a frame.
C29_Witness ==
    /\ lastOp.op = "add_movie"
    /\ ~panicked
    /\ \E stored \in Collided :
        \E inc \in Incoming(stored.id) :
            /\ stored.time_frame = NoneTF
            /\ inc.time_frame.kind = "Dates"
            /\ \E e \in events : e.id = stored.id /\ e.time_frame = NoneTF

(***************************************************************************)
(* cinemas::fetch: properties                                              *)
(***************************************************************************)
Titles(groups) == {g.title : g \in groups}

\* The places in the returned list of the variants of the group `g`.
PositionsOf(g) ==
    {i \in DOMAIN movies_out : \E m \in g.movies : m.id = movies_out[i].id}

\* Each of two sources has one variant of the title: one the untagged variant,
\* the other a tagged one.
BaseAndTagged(t) ==
    /\ HasGroup(tc_groups, t)
    /\ HasGroup(ts_groups, t)
    /\ \E a \in GroupAt(tc_groups, t).movies, b \in GroupAt(ts_groups, t).movies :
        /\ GroupAt(tc_groups, t).movies = {a}
        /\ GroupAt(ts_groups, t).movies = {b}
        /\ (a.tags = {}) # (b.tags = {})

\* C13: when cinemas::fetch has returned and the two sources had one variant
\* each of a base title, one untagged and one tagged, the fold holds one group
\* of that title, and the returned list holds its variants at two adjacent
\* places, with different ids, the untagged one first.
C13_OneGroupTwoVariants ==
    cpc = "done" =>
        \A t \in Titles(tc_groups) \cap Titles(ts_groups) :
            BaseAndTagged(t) =>
                /\ Cardinality({g \in movie_groups : g.title = t}) = 1
                /\ \E i \in DOMAIN movies_out :
                    /\ PositionsOf(GroupAt(movie_groups, t)) = {i, i + 1}
                    /\ i + 1 \in DOMAIN movies_out
                    /\ movies_out[i].id # movies_out[i + 1].id
                    /\ movies_out[i].tags = {}
                    /\ movies_out[i + 1].tags # {}

C13_Witness ==
    /\ cpc = "done"
    /\ \E t \in Titles(tc_groups) \cap Titles(ts_groups) :
        /\ BaseAndTagged(t)
        /\ \E a \in GroupAt(tc_groups, t).movies : a.tags = {}
        /\ Len(movies_out) = 2
        /\ movies_out[2].tags = {"3D"}

\* The group of the fold that the variant at place `i` of the list is of.
GroupOfPlace(i) ==
    CHOOSE g \in movie_groups : \E m \in g.movies : m.id = movies_out[i].id

\* C14: in the list cinemas::fetch returns, the variants of a group are next
\* to one another, the groups are in ascending order of their titles, and the
\* variants of a group are in non-decreasing number of tags.
C14_ListOrder ==
    cpc = "done" =>
        \A i, j \in DOMAIN movies_out :
            i < j =>
                IF GroupOfPlace(i) = GroupOfPlace(j)
                THEN /\ \A k \in i..j : GroupOfPlace(k) = GroupOfPlace(i)
                     /\ Cardinality(movies_out[i].tags) <= Cardinality(movies_out[j].tags)
                ELSE StrLess(GroupOfPlace(i).title, GroupOfPlace(j).title)

\* C15 as claimed: in the list cinemas::fetch returns, the first variant of
\* every group that has a description carries that description.
C15_FirstVariantDescribed ==
    cpc = "done" =>
        \A g \in movie_groups :
            g.description # "None" =>
                \A i \in PositionsOf(g) :
                    (\A k \in PositionsOf(g) : i <= k) =>
                        movies_out[i].description = g.description

\* C15 as amended: in the list cinemas::fetch returns, the last variant of
\* every group that has a description carries that description.
C15_LastVariantDescribed ==
    cpc = "done" =>
        \A g \in movie_groups :
            g.description # "None" =>
                \A i \in PositionsOf(g) :
                    (\A k \in PositionsOf(g) : k <= i) =>
                        movies_out[i].description = g.description

C15_Witness ==
    /\ cpc = "done"
    /\ \E g \in movie_groups :
        /\ g.description # "None"
        /\ Cardinality(g.movies) = 2
        /\ \E i \in PositionsOf(g) :
            /\ PositionsOf(g) = {i, i + 1}
            /\ movies_out[i].tags = {}
            /\ movies_out[i].description = "None"
            /\ movies_out[i + 1].description = g.description

\* The groups of the source of the last step.
GroupsOf(source) == IF source = "triestecinema" THEN tc_groups ELSE ts_groups

\* C16: after every step of a source, a step that brought no description has
\* left the description the group had, and a step of a tagged variant has left
\* the description a base variant of that source had supplied; and after the
\* fold, a group that had a description in the first source and none in the
\* second has kept it.
C16_DescriptionPriority ==
    /\ (cstep.source # "none" /\ cstep.before \notin {"Absent", "None"}) =>
          /\ cstep.incoming = "None" =>
                GroupAt(GroupsOf(cstep.source), cstep.title).description = cstep.before
          /\ (cstep.tags # {} /\ cstep.was_base) =>
                GroupAt(GroupsOf(cstep.source), cstep.title).description = cstep.before
    /\ cpc = "done" =>
          \A g \in tc_groups :
              (/\ g.description # "None"
               /\ HasGroup(ts_groups, g.title)
               /\ GroupAt(ts_groups, g.title).description = "None") =>
                  GroupAt(movie_groups, g.title).description = g.description

\* C17: folding the groups of a source into the map a second time gives the
\* map the first fold gave, for the first source folded into the empty map and
\* for the second source folded into the map that holds the first; and the
\* map cinemas::fetch has built is left as it is by a second fold of the
\* second source.
C17_FoldIdempotent ==
    LET first == fold_source({}, tc_groups)
        second == fold_source(first.groups, ts_groups)
    IN  /\ ~first.panicked =>
              /\ fold_source(first.groups, tc_groups) = first
              /\ ~second.panicked => fold_source(second.groups, ts_groups) = second
        /\ cpc = "done" =>
              fold_source(movie_groups, ts_groups) = Stepped(movie_groups, FALSE)

\* The two sources had the same variant of a title, with different
\* descriptions, and a variant of a day seen twice.
C17_Witness ==
    /\ cpc = "done"
    /\ \E a \in tc_groups, b \in ts_groups :
        /\ a.title = b.title
        /\ a.description \notin {"None", b.description}
        /\ \E m \in a.movies, n \in b.movies : m.id = n.id
        /\ \E g \in movie_groups :
            /\ g.title = a.title
            /\ g.description = b.description
            /\ \E m \in g.movies : m.locations = {"Ariston", "The Space"}

\* What the claim counts as the content of a map of groups: per title the ids
\* of the variants with their locations and time frames; and the same without
\* the time frames.
VariantContent(groups) ==
    {[title |-> g.title,
      variants |-> {[id |-> m.id, locations |-> m.locations, time_frame |-> m.time_frame] :
                        m \in g.movies}] : g \in groups}
PlacedContent(groups) ==
    {[title |-> g.title,
      variants |-> {[id |-> m.id, locations |-> m.locations] : m \in g.movies}] :
        g \in groups}

\* C30 as claimed: the groups cinemas::fetch has built have the titles, variant
\* ids, locations and time frames that folding the_space before triestecinema
\* gives.
C30_FoldOrderKeepsContent ==
    cpc = "done" =>
        LET swapped == fold_sources(ts_groups, tc_groups)
        IN  /\ ~swapped.panicked
            /\ VariantContent(movie_groups) = VariantContent(swapped.groups)

\* C30: the groups cinemas::fetch has built have the titles, variant ids and
\* locations that folding the_space before triestecinema gives; the time frame
\* of a variant and the description of a group may differ.
C30_FoldOrderKeepsPlaces ==
    cpc = "done" =>
        LET swapped == fold_sources(ts_groups, tc_groups)
        IN  /\ ~swapped.panicked
            /\ PlacedContent(movie_groups) = PlacedContent(swapped.groups)

\* Both sources had the same variant of a title, only one of them with a
\* time frame, and the variant is in the map with the locations of both.
C30_Witness ==
    /\ cpc = "done"
    /\ \E a \in tc_groups, b \in ts_groups :
        /\ a.title = b.title
        /\ \E m \in a.movies, n \in b.movies : m.id = n.id /\ m.time_frame # n.time_frame
        /\ \E g \in movie_groups :
            /\ g.title = a.title
            /\ \E m \in g.movies : m.locations = {"Ariston", "The Space"}

(***************************************************************************)
(* theaters::fetch: properties                                             *)
(***************************************************************************)
\* C18: the list theaters::fetch returns holds no two EventVariants of the
\* same title, and the EventVariants of a title holds every event of that
\* title that a venue returned.
C18_OneGroupPerTitle ==
    tpc = "done" =>
        /\ \A i, j \in DOMAIN th_variants :
              th_variants[i].title = th_variants[j].title => i = j
        /\ \A k \in DOMAIN th_results :
              \A e \in th_results[k] :
                  \E i \in DOMAIN th_variants :
                      /\ th_variants[i].title = e.title
                      /\ \E n \in DOMAIN th_variants[i].events :
                            th_variants[i].events[n].locations = e.locations

(***************************************************************************)
(* Verdi parse_date: properties                                            *)
(***************************************************************************)
\* C22: whatever the date string, the parser returns and does not panic.
C22_ParserNeverPanics == verdi_out.tag # "Panic"

\* A part that is a day of the calendar alone, or a day and a month name.
StatesMonth(part) == Len(part) >= 2 /\ part[2] \in DOMAIN MonthNames
PlainPart(part) ==
    /\ part[1] \in DOMAIN Numerals
    /\ Len(part) = 1 \/ (Len(part) = 2 /\ StatesMonth(part))
\* A last part that is a day, a month name and a year.
FullPart(part) ==
    /\ Len(part) = 3
    /\ part[1] \in DOMAIN Numerals
    /\ StatesMonth(part)
    /\ part[3] \in DOMAIN Numerals
\* The month of the nearest part from i on that states one.
MonthFor(parts, i) ==
    LET j == CHOOSE k \in i..Len(parts) :
                 StatesMonth(parts[k]) /\ \A l \in i..(k - 1) : ~StatesMonth(parts[l])
    IN  MonthNames[parts[j][2]]
\* The date a part stands for: its day, the month of the nearest later part
\* that states one, the year of the last part.
DateFor(parts, i) ==
    NaiveDate(Numerals[parts[Len(parts)][3]], MonthFor(parts, i), Numerals[parts[i][1]])
\* A list of days and months that ends in a full date, every day being one
\* its month has.
WellFormedList(parts) ==
    /\ Len(parts) >= 2
    /\ FullPart(parts[Len(parts)])
    /\ \A i \in 1..(Len(parts) - 1) : PlainPart(parts[i])
    /\ \A i \in 1..Len(parts) : Numerals[parts[i][1]] <= DaysIn(MonthFor(parts, i))

UnknownMonth(part) == Len(part) >= 2 /\ part[2] \notin DOMAIN MonthNames
\* A list of whole entries but for one entry whose month word is unknown; the
\* days are days every month has.
OneBadEntry(parts) ==
    /\ Len(parts) >= 2
    /\ \A i \in 1..Len(parts) :
        /\ Len(parts[i]) \in 1..3
        /\ parts[i][1] \in DOMAIN Numerals
        /\ Numerals[parts[i][1]] <= 28
    /\ \A i \in 1..(Len(parts) - 1) : Len(parts[i]) <= 2
    /\ Len(parts[Len(parts)]) = 3
    /\ parts[Len(parts)][3] \in DOMAIN Numerals
    /\ Cardinality({i \in 1..Len(parts) : UnknownMonth(parts[i])}) = 1

\* C24: a list with one entry whose month name is unknown, wherever the entry
\* stands, still gives the dates of the other entries.
C24_BadEntryIsSkipped ==
    (verdi_out # Unparsed /\ OneBadEntry(verdi_in))
        => /\ verdi_out.tag = "Some"
           /\ Len(verdi_out.dates) = Len(verdi_in) - 1

(***************************************************************************)
(* custom: properties                                                      *)
(***************************************************************************)
\* An entry that has a title and whose parsed time frame overlaps the week.
Qualifies(entry) ==
    /\ entry.has_title
    /\ LET time_frame == custom_parse_date(entry.date)
       IN  /\ time_frame # NoneTF
           /\ \E d \in {custom_window.start_date, custom_window.end_date} \cup
                       Range(time_frame.dates) \cup {time_frame.start, time_frame.end} :
                  /\ contains(custom_window, d)
                  /\ contains(as_range(time_frame), d)
Qualifying == {i \in DOMAIN custom_in : Qualifies(custom_in[i])}

\* C25: fetch returns exactly the entries that have a title and whose parsed
\* time frame overlaps the week, each once, in the order of their titles.
C25_ExactlyTheOverlapping ==
    custom_out.returned =>
        /\ \E f \in [Qualifying -> DOMAIN custom_out.events] :
              /\ \A i, j \in Qualifying : i # j => f[i] # f[j]
              /\ \A j \in DOMAIN custom_out.events : \E i \in Qualifying : f[i] = j
              /\ \A i \in Qualifying :
                    /\ custom_out.events[f[i]].title = custom_in[i].title
                    /\ custom_out.events[f[i]].time_frame = custom_parse_date(custom_in[i].date)
        /\ \A j, k \in DOMAIN custom_out.events :
              j < k => ~StrLess(custom_out.events[k].title, custom_out.events[j].title)
C25_Witness ==
    /\ custom_out.returned
    /\ Len(custom_in) = 2
    /\ Len(custom_out.events) = 2
    /\ custom_out.events[1].title = custom_in[2].title
    /\ custom_out.events[1].title # custom_out.events[2].title

\* A date string that is a day, a month and a year in this order.
IsDayFirst(date_str) ==
    /\ Len(date_str) = 3
    /\ \A i \in 1..3 : parse_u32(date_str[i]).ok
    /\ parse_u32(date_str[2]).val \in 1..12
    /\ parse_u32(date_str[1]).val \in 1..DaysIn(parse_u32(date_str[2]).val)
    /\ parse_u32(date_str[3]).val \in 1000..9999
DayFirstDate(date_str) ==
    NaiveDate(parse_u32(date_str[3]).val, parse_u32(date_str[2]).val, parse_u32(date_str[1]).val)

\* C26: of dates written day first, a single string gives a Dates frame with
\* that one date, an array one date per string, and two strings joined by a
\* slash a Period frame from the first to the second.
C26_DayFirstInThreeShapes ==
    (custom_frame # NoFrame /\ \A i \in DOMAIN custom_value.items : IsDayFirst(custom_value.items[i]))
        => /\ (custom_value.kind = "str" /\ Len(custom_value.items) = 1)
                => custom_frame = Dates(<<DayFirstDate(custom_value.items[1])>>)
           /\ (custom_value.kind = "array" /\ custom_value.items # <<>>)
                => custom_frame =
                       Dates([i \in DOMAIN custom_value.items |-> DayFirstDate(custom_value.items[i])])
           /\ (custom_value.kind = "str" /\ Len(custom_value.items) = 2)
                => custom_frame = Period(DayFirstDate(custom_value.items[1]),
                                         DayFirstDate(custom_value.items[2]))

(***************************************************************************)
(* make_id: properties                                                     *)
(***************************************************************************)
\* C27: for one base title, two calls of make_id return the same id exactly
\* when their tag sets are the same, in whatever order each set is iterated;
\* the id is the one make_id gives for the set.
C27_IdOfBaseAndTagSet ==
    (ids.a.made /\ ids.b.made)
        => /\ (Range(id_tags.a) = Range(id_tags.b)) <=> (ids.a.id = ids.b.id)
           /\ ids.a.id = make_id(id_base, Range(id_tags.a))
C27_Witness ==
    /\ ids.a.made
    /\ ids.b.made
    /\ Len(id_tags.a) = 2
    /\ Range(id_tags.a) = Range(id_tags.b)
    /\ id_tags.a # id_tags.b
    /\ ids.a.id = ids.b.id

(***************************************************************************)
(* the_space::fetch: properties                                            *)
(***************************************************************************)
AllUndecodable == \A i \in DOMAIN api_calls : api_calls[i] = "undecodable"

\* C28: the_space::fetch calls its API at most three times, every call but
\* the last one made came back undecodable, and after three undecodable
\* responses it returns no groups and no error.
C28_ThreeAttemptsThenEmpty ==
    /\ Len(api_calls) <= 3
    /\ \A i \in 1..(Len(api_calls) - 1) : api_calls[i] = "undecodable"
    /\ (Len(api_calls) = 3 /\ AllUndecodable)
          => /\ ts_groups = {}
             /\ cpc \in {"the_space", "fold", "done"}
C28_Witness ==
    /\ Len(api_calls) = 3
    /\ AllUndecodable
    /\ ts_groups = {}
    /\ cpc = "done"

(***************************************************************************)
(* DateRange: properties                                                   *)
(***************************************************************************)
\* C20: once overlaps has answered for two ranges each way round, the two
\* answers are the same, whether or not a range starts after its end.
C20_OverlapsSymmetric ==
    (answers.ab # "unasked" /\ answers.ba # "unasked") => answers.ab = answers.ba

\* Both answers are in, they say the ranges overlap, and one range starts
\* after its end.
C20_Witness ==
    /\ answers.ab = "true"
    /\ answers.ba = "true"
    /\ range_a.start_date > range_a.end_date
    /\ range_b.start_date <= range_b.end_date

(***************************************************************************)
(* A venue that fails: properties                                          *)
(***************************************************************************)
\* C21: for two ranges that each start no later than they end, overlaps
\* answers true exactly when contains finds some day in both; in particular
\* ranges sharing a boundary day overlap and ranges a day or more apart do not.
Ordered(r) == r.start_date <= r.end_date
C21_OverlapsIffSharedDay ==
    (answers.ab # "unasked" /\ shared_days.asked /\ Ordered(range_a) /\ Ordered(range_b))
        => /\ (answers.ab = "true") <=> (shared_days.days # {})
           /\ (range_a.end_date = range_b.start_date) => answers.ab = "true"
           /\ (range_a.end_date < range_b.start_date) => answers.ab = "false"
C21_Witness ==
    /\ answers.ab = "true"
    /\ shared_days.asked
    /\ range_a.start_date < range_a.end_date
    /\ range_a.end_date = range_b.start_date
    /\ range_b.start_date < range_b.end_date

\* C19: when the fetch of a venue has failed, get_or_fetch has not returned
\* the error to the category fetch, and once the category fetch has returned
\* every venue of the category has been asked for its events, also those that
\* come after the venue that failed.
C19_FailedVenueDoesNotAbort ==
    \A r \in Calls :
        (r.fetched = 1 /\ r.outcome.tag = "Err") =>
            /\ r.result.tag # "Err"
            /\ r.category \in run.done =>
                  \A venue \in Range(VenuesOf(r.category)) :
                      \E q \in Calls : q.category = r.category /\ q.venue = venue
====
